---- MODULE Spec2Model ----
(***************************************************************************)
(* Model of the BimBot_AI geometry pipeline (worker/pipeline).             *)
(*                                                                         *)
(* Every stage is a function from its input artifact to its output         *)
(* artifact; each stage has a specification of its own whose Init draws    *)
(* the stage input from a bounded catalogue and whose action applies the   *)
(* stage.  Coordinates are integers in a per-stage unit (named below);     *)
(* the catalogues hold axis-parallel geometry plus a few tilted quads, so  *)
(* that every floating-point value the code computes on them is exact.     *)
(***************************************************************************)
EXTENDS Integers, Sequences, FiniteSets, TLC

VARIABLES
    phase,              \* which stage this behaviour exercises, and whether it has run
    line_entities,      \* Stage B input: line-like list
    pairs_out,          \* Stage B output: logic_b_pairs
    rectangles,         \* input rectangle list of Stage D / E / F
    logic_d_rectangles, \* Stage D output
    logic_e_rectangles, \* Stage E output
    logic_f_rectangles, \* Stage F output
    accepted,           \* Stage F: accepted junctions, in acceptance order
    door_assignments,   \* door bridge input: per door, rectangleIndices
    door_center,        \* door bridge input: per door, centre point or NoValue
    door_bridges,       \* door bridge output
    step_status,        \* executor: JobStep.status by step name
    step_index,         \* executor: position of the for-loop over PIPELINE_STEPS
    pipeline_data,      \* executor: keys of pipeline_data, in insertion order
    results,            \* executor: results dict, as a sequence of <<step, result>>
    exec_log,           \* executor: processor.process() calls, in call order
    layer_groups,       \* PARALLEL_NAIVE: layer names in insertion order
    pending,            \* PARALLEL_NAIVE: per run, futures not yet collected
    processed_results,  \* PARALLEL_NAIVE: per run, processed_results in insertion order
    artifact            \* PARALLEL_NAIVE: per run, serialized step artifact

vars == << phase, line_entities, pairs_out, rectangles, logic_d_rectangles,
           logic_e_rectangles, logic_f_rectangles, accepted, door_assignments,
           door_center, door_bridges, step_status, step_index, pipeline_data,
           results, exec_log, layer_groups, pending, processed_results, artifact >>

\* Python None, as a record so that it compares with every record result.
NoValue == [none |-> TRUE]

(***************************************************************************)
(* Generic helpers                                                         *)
(***************************************************************************)
Abs(v) == IF v < 0 THEN -v ELSE v

Min2(a, b) == IF a <= b THEN a ELSE b

Max2(a, b) == IF a >= b THEN a ELSE b

Sgn(v) == IF v > 0 THEN 1 ELSE IF v < 0 THEN -1 ELSE 0

SetMin(S) == CHOOSE m \in S : \A o \in S : m <= o

SetMax(S) == CHOOSE m \in S : \A o \in S : m >= o

Range(s) == { s[k] : k \in 1..Len(s) }

\* Floor division that is defined for negative numerators.
FloorDiv(a, b) == IF a >= 0 THEN a \div b ELSE -((-a + b - 1) \div b)

\* Python round(a / b) for b > 0: nearest integer, ties to the even one.
RoundFrom(a, b, q) ==
    IF 2 * (a - q * b) < b THEN q
    ELSE IF 2 * (a - q * b) > b THEN q + 1
    ELSE IF q % 2 = 0 THEN q ELSE q + 1

RoundHalfEven(a, b) == RoundFrom(a, b, FloorDiv(a, b))

\* Integer square root (floor); exact on the perfect squares the catalogues produce.
RECURSIVE ISqrtFrom(_, _)
ISqrtFrom(v, r) == IF (r + 1) * (r + 1) > v THEN r ELSE ISqrtFrom(v, r + 1)

\* math.hypot / sqrt(a*a + b*b); the axis-parallel case is computed without squaring.
Hypot(a, b) ==
    IF a = 0 THEN Abs(b)
    ELSE IF b = 0 THEN Abs(a)
    ELSE ISqrtFrom(a * a + b * b, 0)

\* All sequences over S of length 0..n.
RECURSIVE SeqsUpTo(_, _)
SeqsUpTo(S, n) ==
    IF n = 0 THEN { <<>> }
    ELSE { <<>> } \cup { << e >> \o s : e \in S, s \in SeqsUpTo(S, n - 1) }

IsInjective(s) == \A a, b \in 1..Len(s) : s[a] = s[b] => a = b

\* Lexicographic order on equal-length integer tuples (Python tuple comparison).
RECURSIVE LexLess(_, _)
LexLess(a, b) ==
    IF a = <<>> \/ b = <<>> THEN FALSE
    ELSE IF Head(a) < Head(b) THEN TRUE
    ELSE IF Head(a) > Head(b) THEN FALSE
    ELSE LexLess(Tail(a), Tail(b))

\* Python's stable sort (list.sort / sorted): keys[k] is the tuple key of element
\* k; the result lists the element positions in sorted order.
RECURSIVE InsertIndex(_, _, _)
InsertIndex(sorted, e, keys) ==
    IF sorted = <<>> THEN << e >>
    ELSE IF LexLess(keys[e], keys[Head(sorted)]) THEN << e >> \o sorted
    ELSE << Head(sorted) >> \o InsertIndex(Tail(sorted), e, keys)

RECURSIVE SortFrom(_, _, _)
SortFrom(k, acc, keys) ==
    IF k > Len(keys) THEN acc
    ELSE SortFrom(k + 1, InsertIndex(acc, k, keys), keys)

SortedIndices(keys) == SortFrom(1, <<>>, keys)

(***************************************************************************)
(* Stage B - logic_b_processor.py.  Unit: 0.001 mm (EPS_MM = 1).           *)
(* A point is <<x, y>>; Z never takes part in a predicate and is left out, *)
(* as is the random pair_id.                                               *)
(***************************************************************************)
UnitsPerMmB == 1000

EPS_MM == 1

EPS_OVERLAP_MM == 10

LOGIC_B_MIN_CM == 1

LOGIC_B_MAX_CM == 45

DEDUP_ROUND_UNITS == 100

\* sin(radians(LOGIC_B_ANGULAR_TOLERANCE_DEG)) = sin(2 deg) = 0.0348995, as a fraction.
SinTolNum == 348995

SinTolDen == 10000000

cm_to_internal(cm) == cm * 10 * UnitsPerMmB

_cross2(ax, ay, bx, by) == ax * by - ay * bx

_dot2(ax, ay, bx, by) == ax * bx + ay * by

\* (x / L, y / L) with L = sqrt(x*x + y*y); on an axis-parallel vector L is |x| + |y|.
Scale2(x, y, L) == IF L <= 0 THEN << 0, 0 >> ELSE << x \div L, y \div L >>

_normalize2(x, y) == Scale2(x, y, Hypot(x, y))

\* Clamp v into [lo, hi]: max(lo, min(hi, v)).
Clamp(v, lo, hi) == Max2(lo, Min2(hi, v))

\* The code clamps t = dot(p - p1, d) / |d|^2 to [0, 1] and measures p to p1 + t*d.
\* With the unit direction u = d / |d| this is p1 + clamp(dot(p - p1, u), 0, |d|) * u,
\* which is computed here (no product of two coordinates is formed).
PointToFoot(px, py, x1, y1, u, t) == Hypot(px - (x1 + t * u[1]), py - (y1 + t * u[2]))

PointToSegment(px, py, x1, y1, len, u) ==
    IF len <= 0 THEN Hypot(px - x1, py - y1)
    ELSE PointToFoot(px, py, x1, y1, u, Clamp(_dot2(px - x1, py - y1, u[1], u[2]), 0, len))

_point_to_segment_distance_xy(px, py, x1, y1, x2, y2) ==
    PointToSegment(px, py, x1, y1, Hypot(x2 - x1, y2 - y1), _normalize2(x2 - x1, y2 - y1))

\* (x1, y1, x2, y2, len, dx, dy) or NoValue for a degenerate segment.
LineXY(entity, length) ==
    IF length < EPS_MM THEN NoValue
    ELSE [x1 |-> entity.x1, y1 |-> entity.y1, x2 |-> entity.x2, y2 |-> entity.y2,
          len |-> length, dx |-> entity.x2 - entity.x1, dy |-> entity.y2 - entity.y1]

_get_line_xy(entity) == LineXY(entity, Hypot(entity.x2 - entity.x1, entity.y2 - entity.y1))

\* Lines 145-153, with d2 the canonicalised (possibly flipped) direction of L2.
ParallelCanon(d1, d2orig, d2) ==
    IF Abs(_cross2(d1[1], d1[2], d2[1], d2[2])) * SinTolDen > SinTolNum
    THEN [ok |-> FALSE, d |-> << 0, 0 >>, d1 |-> d1, d2orig |-> d2orig]
    ELSE [ok |-> TRUE, d |-> _normalize2(d1[1] + d2[1], d1[2] + d2[2]),
          d1 |-> d1, d2orig |-> d2orig]

\* Lines 139-144: flip d2 when dot(d1, d2) < 0.
ParallelDirs(d1, d2orig) ==
    ParallelCanon(d1, d2orig,
                  IF _dot2(d1[1], d1[2], d2orig[1], d2orig[2]) < 0
                  THEN << -d2orig[1], -d2orig[2] >> ELSE d2orig)

_are_parallel_stable(dx1, dy1, dx2, dy2) ==
    ParallelDirs(_normalize2(dx1, dy1), _normalize2(dx2, dy2))

_perpendicular_distance_xy(a0x, a0y, b0x, b0y, d2x, d2y) ==
    Abs(_cross2(a0x - b0x, a0y - b0y, d2x, d2y))

\* Python round(v, 1) on a value held in 0.001 mm: nearest 0.1 mm, in 0.1 mm units.
RoundOverlap(v) == RoundHalfEven(v, DEDUP_ROUND_UNITS)

\* The longitudinal overlap of the two projected intervals (lines 205-206), widened
\* to the union of the intervals.
OverlapIntervalUnion(min_a, max_a, min_b, max_b) ==
    << Min2(min_a, min_b), Max2(max_a, max_b) >>

\* The longitudinal overlap of the two projected intervals (lines 205-206).
OverlapInterval(min_a, max_a, min_b, max_b) ==
    << Max2(min_a, min_b), Min2(max_a, max_b) >>

\* Trimmed end points of line B of a pair (lines 240-243): own origin, own direction.
TrimmedB(b, par, v_min_c, v_max_c) ==
    [p1 |-> << b.x1 + v_min_c * par.d2orig[1], b.y1 + v_min_c * par.d2orig[2] >>,
     p2 |-> << b.x1 + v_max_c * par.d2orig[1], b.y1 + v_max_c * par.d2orig[2] >>]

\* Lines 245-296: the on-segment checks, then the emitted pair and its dedup key.
\* (The inner loop is written as a chain of operators, each taking the values
\* computed before it, in the order of the code.)
PairEmit(id_a, id_b, a, b, dist, ov, p_a_start, p_a_end, tb) ==
    IF \/ _point_to_segment_distance_xy(p_a_start[1], p_a_start[2], a.x1, a.y1, a.x2, a.y2) > EPS_MM
       \/ _point_to_segment_distance_xy(p_a_end[1], p_a_end[2], a.x1, a.y1, a.x2, a.y2) > EPS_MM
       \/ _point_to_segment_distance_xy(tb.p1[1], tb.p1[2], b.x1, b.y1, b.x2, b.y2) > EPS_MM
       \/ _point_to_segment_distance_xy(tb.p2[1], tb.p2[2], b.x1, b.y1, b.x2, b.y2) > EPS_MM
    THEN NoValue
    ELSE [dedup_key |-> << Min2(id_a, id_b), Max2(id_a, id_b),
                           RoundOverlap(ov[1]), RoundOverlap(ov[2]) >>,
          pair |-> [sourceLineIdA |-> id_a,
                    sourceLineIdB |-> id_b,
                    trimmedSegmentA |-> [p1 |-> p_a_start, p2 |-> p_a_end],
                    trimmedSegmentB |-> tb,
                    distance |-> dist,
                    quad_corners |-> << p_a_start, p_a_end, tb.p2, tb.p1 >>,
                    bounding_rectangle |->
                        [minX |-> SetMin({ p_a_start[1], p_a_end[1], tb.p1[1], tb.p2[1] }),
                         maxX |-> SetMax({ p_a_start[1], p_a_end[1], tb.p1[1], tb.p2[1] }),
                         minY |-> SetMin({ p_a_start[2], p_a_end[2], tb.p1[2], tb.p2[2] }),
                         maxY |-> SetMax({ p_a_start[2], p_a_end[2], tb.p1[2], tb.p2[2] })]]]

\* Lines 218-243: the clipped parameter intervals and the trimmed end points.
PairClamped(id_a, id_b, a, b, par, dist, ov, u_min_c, u_max_c, v_min_c, v_max_c) ==
    IF u_max_c <= u_min_c + EPS_MM THEN NoValue
    ELSE IF v_max_c <= v_min_c + EPS_MM THEN NoValue
    ELSE PairEmit(id_a, id_b, a, b, dist, ov,
                  << a.x1 + u_min_c * par.d1[1], a.y1 + u_min_c * par.d1[2] >>,
                  << a.x1 + u_max_c * par.d1[1], a.y1 + u_max_c * par.d1[2] >>,
                  TrimmedB(b, par, v_min_c, v_max_c))

\* Lines 216-231: u = (s - s1_0) / dd1 and v = (s - s2_0) / dd2, clamped to the
\* line's own length.  dd1 and dd2 are +1 or -1 on the catalogue, where dividing
\* is multiplying.
PairParams(id_a, id_b, a, b, par, dist, ov, s1_0, dd1, s2_0, dd2, u_min, u_max, v_min, v_max) ==
    PairClamped(id_a, id_b, a, b, par, dist, ov,
                Clamp(Min2(u_min, u_max), 0, a.len), Clamp(Max2(u_min, u_max), 0, a.len),
                Clamp(Min2(v_min, v_max), 0, b.len), Clamp(Max2(v_min, v_max), 0, b.len))

\* Lines 207-227: the overlap test and the projections of the own directions.
PairOverlap(id_a, id_b, a, b, par, dist, ov, s1_0, dd1, s2_0, dd2) ==
    IF ov[2] <= ov[1] + EPS_OVERLAP_MM THEN NoValue
    ELSE IF dd1 = 0 \/ dd2 = 0 THEN NoValue
    ELSE PairParams(id_a, id_b, a, b, par, dist, ov, s1_0, dd1, s2_0, dd2,
                    (ov[1] - s1_0) * dd1, (ov[2] - s1_0) * dd1,
                    (ov[1] - s2_0) * dd2, (ov[2] - s2_0) * dd2)

\* Lines 199-206: the two projected intervals and their overlap.
PairProjected(id_a, id_b, a, b, par, dist, s1_start, s1_end, s2_start, s2_end) ==
    PairOverlap(id_a, id_b, a, b, par, dist,
                OverlapInterval(Min2(s1_start, s1_end), Max2(s1_start, s1_end),
                                Min2(s2_start, s2_end), Max2(s2_start, s2_end)),
                s1_start, _dot2(par.d1[1], par.d1[2], par.d[1], par.d[2]),
                s2_start, _dot2(par.d2orig[1], par.d2orig[2], par.d[1], par.d[2]))

\* The distance window with both borders excluded.
PairAtDistanceExclusive(id_a, id_b, a, b, par, dist) ==
    IF dist <= cm_to_internal(LOGIC_B_MIN_CM) \/ dist >= cm_to_internal(LOGIC_B_MAX_CM)
    THEN NoValue
    ELSE PairProjected(id_a, id_b, a, b, par, dist,
                       _dot2(a.x1 - a.x1, a.y1 - a.y1, par.d[1], par.d[2]),
                       _dot2(a.x2 - a.x1, a.y2 - a.y1, par.d[1], par.d[2]),
                       _dot2(b.x1 - a.x1, b.y1 - a.y1, par.d[1], par.d[2]),
                       _dot2(b.x2 - a.x1, b.y2 - a.y1, par.d[1], par.d[2]))

\* Lines 191-202: the distance window, then the projections on the shared axis d
\* with origin O = (x1a, y1a).
PairAtDistance(id_a, id_b, a, b, par, dist) ==
    IF dist < cm_to_internal(LOGIC_B_MIN_CM) \/ dist > cm_to_internal(LOGIC_B_MAX_CM)
    THEN NoValue
    ELSE PairProjected(id_a, id_b, a, b, par, dist,
                       _dot2(a.x1 - a.x1, a.y1 - a.y1, par.d[1], par.d[2]),
                       _dot2(a.x2 - a.x1, a.y2 - a.y1, par.d[1], par.d[2]),
                       _dot2(b.x1 - a.x1, b.y1 - a.y1, par.d[1], par.d[2]),
                       _dot2(b.x2 - a.x1, b.y2 - a.y1, par.d[1], par.d[2]))

\* Lines 185-191: the parallel test, then the perpendicular distance.
PairParallel(id_a, id_b, a, b, par) ==
    IF ~par.ok THEN NoValue
    ELSE PairAtDistance(id_a, id_b, a, b, par,
                        _perpendicular_distance_xy(a.x1, a.y1, b.x1, b.y1,
                                                   par.d2orig[1], par.d2orig[2]))

\* Lines 171-187: both lines must be non-degenerate.
PairFromLines(id_a, id_b, a, b) ==
    IF a = NoValue \/ b = NoValue THEN NoValue
    ELSE PairParallel(id_a, id_b, a, b, _are_parallel_stable(a.dx, a.dy, b.dx, b.dy))

\* One iteration of the inner loop of _detect_logic_b_pairs for lines i < j:
\* the emitted pair (with its dedup key), or NoValue when the pair is skipped.
LogicBPair(line_a, line_b) ==
    PairFromLines(line_a.id, line_b.id, _get_line_xy(line_a), _get_line_xy(line_b))

\* Lines 259-265 and 286: skip a pair whose dedup key was seen, else emit it.
DetectStep(lines, i, j, seen_keys, out, r) ==
    IF r = NoValue \/ r.dedup_key \in seen_keys
    THEN << seen_keys, out >>
    ELSE << seen_keys \cup { r.dedup_key }, Append(out, r.pair) >>

\* The double loop "for i in range(n): for j in range(i + 1, n)" with seen_keys.
RECURSIVE DetectFrom(_, _, _, _)
DetectFrom(lines, i, j, acc) ==
    IF i > Len(lines) THEN acc[2]
    ELSE IF j > Len(lines) THEN DetectFrom(lines, i + 1, i + 2, acc)
    ELSE DetectFrom(lines, i, j + 1,
                    DetectStep(lines, i, j, acc[1], acc[2], LogicBPair(lines[i], lines[j])))

_detect_logic_b_pairs(lines) == DetectFrom(lines, 1, 2, << {}, <<>> >>)

(***************************************************************************)
(* Stage B specification: the line-like list is drawn from a catalogue.    *)
(***************************************************************************)
MaxLinesB == 3

Mm(v) == v * UnitsPerMmB

BLine(id, x1, y1, x2, y2) == [id |-> id, x1 |-> x1, y1 |-> y1, x2 |-> x2, y2 |-> y2]

\* S1/S2 of the specification plus reversed, vertical, too-near, too-far,
\* barely-overlapping and degenerate line-likes; 10 and 11 lie 0.001 mm below
\* and above line 1, which puts them 450.001 / 449.999 mm from line 4 and
\* 10.001 / 9.999 mm from lines 2 and 3.
LineCatalogue ==
    { BLine(1, Mm(0), Mm(0), Mm(100), Mm(0)),
      BLine(2, Mm(20), Mm(10), Mm(80), Mm(10)),
      BLine(3, Mm(120), Mm(10), Mm(-20), Mm(10)),
      BLine(4, Mm(100), Mm(450), Mm(30), Mm(450)),
      BLine(5, Mm(0), Mm(5), Mm(100), Mm(5)),
      BLine(6, Mm(100) - 5, Mm(20), Mm(200), Mm(20)),
      BLine(7, Mm(0), Mm(0), Mm(0), Mm(100)),
      BLine(8, Mm(30), Mm(90), Mm(30), Mm(10)),
      BLine(9, Mm(50), Mm(50), Mm(50), Mm(50)),
      BLine(10, Mm(0), -1, Mm(100), -1),
      BLine(11, Mm(100), 1, Mm(0), 1) }

InputsB == { s \in SeqsUpTo(LineCatalogue, MaxLinesB) : Len(s) >= 2 /\ IsInjective(s) }

IdleB == line_entities = <<>> /\ pairs_out = <<>>

IdleRects ==
    /\ rectangles = <<>>
    /\ logic_d_rectangles = <<>>
    /\ logic_e_rectangles = <<>>
    /\ logic_f_rectangles = <<>>
    /\ accepted = <<>>

IdleDoors == door_assignments = <<>> /\ door_center = <<>> /\ door_bridges = <<>>

IdleExec ==
    /\ step_status = <<>>
    /\ step_index = 0
    /\ pipeline_data = <<>>
    /\ results = <<>>
    /\ exec_log = <<>>

IdleParallel ==
    /\ layer_groups = <<>>
    /\ pending = <<>>
    /\ processed_results = <<>>
    /\ artifact = <<>>

varsB == << line_entities, pairs_out >>

varsRects == << rectangles, logic_d_rectangles, logic_e_rectangles, logic_f_rectangles, accepted >>

varsDoors == << door_assignments, door_center, door_bridges >>

varsExec == << step_status, step_index, pipeline_data, results, exec_log >>

varsParallel == << layer_groups, pending, processed_results, artifact >>

InitB ==
    /\ phase = "B_input"
    /\ line_entities \in InputsB
    /\ pairs_out = <<>>
    /\ IdleRects /\ IdleDoors /\ IdleExec /\ IdleParallel

\* LogicBProcessor.process: pairs = self._detect_logic_b_pairs(line_entities)
LogicB ==
    /\ phase = "B_input"
    /\ pairs_out' = _detect_logic_b_pairs(line_entities)
    /\ phase' = "B_done"
    /\ UNCHANGED << line_entities, varsRects, varsDoors, varsExec, varsParallel >>

NextB == LogicB

SpecB == InitB /\ [][NextB]_vars

(***************************************************************************)
(* C1                                                                      *)
(***************************************************************************)
LineById(id) == CHOOSE l \in Range(line_entities) : l.id = id

\* p lies on the closed segment of line-like l (exactly; l is axis-parallel).
OnSegment(p, l) ==
    /\ (p[1] - l.x1) * Sgn(l.y2 - l.y1) = (p[2] - l.y1) * Sgn(l.x2 - l.x1)
    /\ Min2(l.x1, l.x2) <= p[1] /\ p[1] <= Max2(l.x1, l.x2)
    /\ Min2(l.y1, l.y2) <= p[2] /\ p[2] <= Max2(l.y1, l.y2)

IsHorizontal(l) == l.y1 = l.y2 /\ l.x1 # l.x2

SpanX(seg) == << Min2(seg.p1[1], seg.p2[1]), Max2(seg.p1[1], seg.p2[1]) >>

CommonX(l1, l2) ==
    << Max2(Min2(l1.x1, l1.x2), Min2(l2.x1, l2.x2)),
       Min2(Max2(l1.x1, l1.x2), Max2(l2.x1, l2.x2)) >>

\* C1: every emitted quad has the end points of trimmedSegmentA on its first
\* source line and those of trimmedSegmentB on its second source line; for two
\* horizontal source lines A keeps L1's Y, B keeps L2's Y, and both trimmed
\* segments span exactly the common x-interval of L1 and L2.
C1_TrimmedOnOwnLine ==
    phase = "B_done" =>
        \A k \in 1..Len(pairs_out) :
            LET q == pairs_out[k]
                l1 == LineById(q.sourceLineIdA)
                l2 == LineById(q.sourceLineIdB)
            IN  /\ OnSegment(q.trimmedSegmentA.p1, l1)
                /\ OnSegment(q.trimmedSegmentA.p2, l1)
                /\ OnSegment(q.trimmedSegmentB.p1, l2)
                /\ OnSegment(q.trimmedSegmentB.p2, l2)
                /\ (IsHorizontal(l1) /\ IsHorizontal(l2)) =>
                       /\ q.trimmedSegmentA.p1[2] = l1.y1
                       /\ q.trimmedSegmentA.p2[2] = l1.y1
                       /\ q.trimmedSegmentB.p1[2] = l2.y1
                       /\ q.trimmedSegmentB.p2[2] = l2.y1
                       /\ SpanX(q.trimmedSegmentA) = CommonX(l1, l2)
                       /\ SpanX(q.trimmedSegmentB) = CommonX(l1, l2)

\* A quad was emitted for two horizontal lines of opposite direction and of
\* different extent, so trimming shortened both of them.
C1_Witness ==
    /\ phase = "B_done"
    /\ \E k \in 1..Len(pairs_out) :
           LET q == pairs_out[k]
               l1 == LineById(q.sourceLineIdA)
               l2 == LineById(q.sourceLineIdB)
           IN  /\ IsHorizontal(l1) /\ IsHorizontal(l2)
               /\ Sgn(l1.x2 - l1.x1) # Sgn(l2.x2 - l2.x1)
               /\ SpanX(q.trimmedSegmentA) # << Min2(l1.x1, l1.x2), Max2(l1.x1, l1.x2) >>
               /\ SpanX(q.trimmedSegmentB) # << Min2(l2.x1, l2.x2), Max2(l2.x1, l2.x2) >>

(***************************************************************************)
(* Stage D - containment_pruning_processor.py.  Unit: 0.05 mm.             *)
(* A rectangle is a quad dict: trimmedSegmentA / trimmedSegmentB with p1,  *)
(* p2, and the pair_id that tells two dicts of equal geometry apart.       *)
(***************************************************************************)
UnitsPerMmD == 20

\* TOL_MM = max(EPS_MM, CONTAINMENT_TOL_MM) = 0.1 mm
CONTAINMENT_TOL_UNITS == 2

\* CONTAINMENT_AREA_EPS_MM2 = 1e-6 mm^2 = AreaEpsNum / AreaEpsDen half square units
\* (one half square unit is 0.00125 mm^2).
AreaEpsNum == 1

AreaEpsDen == 1250

Quad(id, a1, a2, b1, b2) ==
    [pair_id |-> id,
     trimmedSegmentA |-> [p1 |-> a1, p2 |-> a2],
     trimmedSegmentB |-> [p1 |-> b1, p2 |-> b2]]

\* The four corners in the order the code collects them: A.p1, A.p2, B.p1, B.p2.
CornerList(rect) ==
    << rect.trimmedSegmentA.p1, rect.trimmedSegmentA.p2,
       rect.trimmedSegmentB.p1, rect.trimmedSegmentB.p2 >>

\* Position of atan2(y, x) in (-pi, pi]: lower half plane, angle 0, upper half
\* plane, angle pi.
AngleClass(v) ==
    IF v[2] < 0 THEN 0
    ELSE IF v[2] = 0 /\ v[1] > 0 THEN 1
    ELSE IF v[2] > 0 THEN 2
    ELSE IF v[1] < 0 THEN 3
    ELSE 1

\* atan2(a) < atan2(b)
AngleLess(a, b) ==
    \/ AngleClass(a) < AngleClass(b)
    \/ AngleClass(a) = AngleClass(b) /\ a[1] * b[2] - a[2] * b[1] > 0

RECURSIVE InsertByAngle(_, _, _)
InsertByAngle(sorted, p, c4) ==
    IF sorted = <<>> THEN << p >>
    ELSE LET h == Head(sorted)
         IN  IF AngleLess(<< 4 * p[1] - c4[1], 4 * p[2] - c4[2] >>,
                          << 4 * h[1] - c4[1], 4 * h[2] - c4[2] >>)
             THEN << p >> \o sorted
             ELSE << h >> \o InsertByAngle(Tail(sorted), p, c4)

\* Four corners sorted by angle from the centroid (c4 is four times the centroid).
_order_quad_corners_xy(corners) ==
    LET c4 == << corners[1][1] + corners[2][1] + corners[3][1] + corners[4][1],
                 corners[1][2] + corners[2][2] + corners[3][2] + corners[4][2] >>
        i1 == InsertByAngle(<<>>, corners[1], c4)
        i2 == InsertByAngle(i1, corners[2], c4)
        i3 == InsertByAngle(i2, corners[3], c4)
    IN  InsertByAngle(i3, corners[4], c4)

_get_quad_corners_xy(pair) == _order_quad_corners_xy(CornerList(pair))

\* Twice the signed shoelace area of a vertex ring.
ShoelaceArea2(ring) ==
    LET n == Len(ring)
        Nxt(k) == IF k = n THEN 1 ELSE k + 1
        Term(k) == ring[k][1] * ring[Nxt(k)][2] - ring[Nxt(k)][1] * ring[k][2]
    IN  Term(1) + Term(2) + Term(3) + Term(4)

\* Polygon(corners), repaired by buffer(0); NoValue when the polygon is empty.
\* The ring is the angle-ordered corner list; area2 is twice Polygon.area.
PolygonOf(ring, a2) == IF a2 = 0 THEN NoValue ELSE [ring |-> ring, area2 |-> a2]

RingPolygon(ring) == PolygonOf(ring, Abs(ShoelaceArea2(ring)))

_pair_to_polygon(pair) == RingPolygon(_get_quad_corners_xy(pair))

\* Polygon.envelope as (minx, miny, maxx, maxy).
Envelope(poly) ==
    LET xs == { poly.ring[k][1] : k \in 1..4 }
        ys == { poly.ring[k][2] : k \in 1..4 }
    IN  << SetMin(xs), SetMin(ys), SetMax(xs), SetMax(ys) >>

\* A.envelope.contains(envelope_b) for two boxes of positive area.
EnvelopeContains(ea, eb) ==
    ea[1] <= eb[1] /\ ea[2] <= eb[2] /\ eb[3] <= ea[3] /\ eb[4] <= ea[4]

\* Squared distance from p to segment a-b is at most tol^2.
NearSegment(p, a, b, tol) ==
    LET dx == b[1] - a[1]
        dy == b[2] - a[2]
        len2 == dx * dx + dy * dy
        t == (p[1] - a[1]) * dx + (p[2] - a[2]) * dy
        NearPoint(q) ==
            /\ Abs(p[1] - q[1]) <= tol /\ Abs(p[2] - q[2]) <= tol
            /\ (p[1] - q[1]) * (p[1] - q[1]) + (p[2] - q[2]) * (p[2] - q[2]) <= tol * tol
        cr == Abs(dx * (p[2] - a[2]) - dy * (p[1] - a[1]))
    IN  IF t <= 0 THEN NearPoint(a)
        ELSE IF t >= len2 THEN NearPoint(b)
        ELSE /\ cr <= tol * (Abs(dx) + Abs(dy))
             /\ cr * cr <= tol * tol * len2

\* p is inside the convex, counter-clockwise ring or within tol of its boundary.
PointWithin(p, ring, tol) ==
    LET Nxt(k) == IF k = 4 THEN 1 ELSE k + 1
        Left(k) == (ring[Nxt(k)][1] - ring[k][1]) * (p[2] - ring[k][2])
                     - (ring[Nxt(k)][2] - ring[k][2]) * (p[1] - ring[k][1]) >= 0
    IN  \/ \A k \in 1..4 : Left(k)
        \/ \E k \in 1..4 : NearSegment(p, ring[k], ring[Nxt(k)], tol)

\* prep(A.buffer(tol_mm)).covers(B) for convex quads: every vertex of B is
\* within tol_mm of A.
BufferedCovers(pa, pb, tol) == \A k \in 1..4 : PointWithin(pb.ring[k], pa.ring, tol)

\* area_a > area_b + area_eps_mm2, on doubled areas: the difference of the
\* doubled areas is an integer, so it exceeds 2 * eps iff it exceeds floor(2 * eps).
AreaLarger(pa, pb) == pa.area2 - pb.area2 > (2 * AreaEpsNum) \div AreaEpsDen

\* Step 1: the rectangles that yield a non-empty polygon (index_to_rect).
RECURSIVE IndexToRect(_)
IndexToRect(rects) ==
    IF rects = <<>> THEN <<>>
    ELSE IF _pair_to_polygon(Head(rects)) = NoValue THEN IndexToRect(Tail(rects))
    ELSE << Head(rects) >> \o IndexToRect(Tail(rects))

\* Step 4 without the cover test of line 127.
IsContainedWithoutCoverTest(i, sorted_polygons, tol) ==
    \E j \in 1..Len(sorted_polygons) :
        /\ j # i
        /\ AreaLarger(sorted_polygons[j], sorted_polygons[i])
        /\ EnvelopeContains(Envelope(sorted_polygons[j]), Envelope(sorted_polygons[i]))

\* Step 4, one rectangle B = sorted_polygons[i]: is it marked contained?
IsContained(i, sorted_polygons, tol) ==
    \E j \in 1..Len(sorted_polygons) :
        /\ j # i
        /\ AreaLarger(sorted_polygons[j], sorted_polygons[i])
        /\ EnvelopeContains(Envelope(sorted_polygons[j]), Envelope(sorted_polygons[i]))
        /\ BufferedCovers(sorted_polygons[j], sorted_polygons[i], tol)

\* Step 5 (line 134): sorted_indices[i] for every position i not marked contained.
OuterIndices(sorted_indices, contained) ==
    LET F[i \in 0..Len(sorted_indices)] ==
            IF i = 0 THEN <<>>
            ELSE IF i \in contained THEN F[i - 1] ELSE Append(F[i - 1], sorted_indices[i])
    IN  F[Len(sorted_indices)]

\* Step 4 with its area comparison turned around (area_b > area_a + eps).
ContainedIndicesSmallerCovers(sorted_polygons, tol) ==
    { i \in 1..Len(sorted_polygons) :
        \E j \in 1..Len(sorted_polygons) :
            /\ j # i
            /\ AreaLarger(sorted_polygons[i], sorted_polygons[j])
            /\ EnvelopeContains(Envelope(sorted_polygons[j]), Envelope(sorted_polygons[i]))
            /\ BufferedCovers(sorted_polygons[j], sorted_polygons[i], tol) }

\* Step 4 (lines 100-131): the positions marked contained.
ContainedIndices(sorted_polygons, tol) ==
    { i \in 1..Len(sorted_polygons) : IsContained(i, sorted_polygons, tol) }

\* Step 5 (lines 133-135): the survivors, looked up through index_to_rect.
PruneOuter(index_to_rect, outer_indices) ==
    [k \in 1..Len(outer_indices) |-> index_to_rect[outer_indices[k]]]

\* Steps 3-4 (lines 96-131) on the polygons in ascending-area order.
PruneSorted(index_to_rect, sorted_indices, sorted_polygons, tol) ==
    PruneOuter(index_to_rect,
               OuterIndices(sorted_indices, ContainedIndices(sorted_polygons, tol)))

\* Step 2 (lines 92-95): sorted_indices by ascending area (stable).
PruneIndexed(index_to_rect, polygons, sorted_indices, tol) ==
    PruneSorted(index_to_rect, sorted_indices,
                [i \in 1..Len(sorted_indices) |-> polygons[sorted_indices[i]]], tol)

PrunePolygons(index_to_rect, polygons, tol) ==
    PruneIndexed(index_to_rect, polygons,
                 SortedIndices([k \in 1..Len(polygons) |-> << polygons[k].area2 >>]), tol)

PruneValid(index_to_rect, tol) ==
    PrunePolygons(index_to_rect,
                  [k \in 1..Len(index_to_rect) |-> _pair_to_polygon(index_to_rect[k])], tol)

prune_contained_rectangles(rects, tol) == PruneValid(IndexToRect(rects), tol)

(***************************************************************************)
(* Stage D specification                                                   *)
(***************************************************************************)
MaxRectsD == 3

\* Axis-parallel rectangle xmin..xmax by ymin..ymax as Stage B lays it out for
\* two horizontal lines of the same direction.
BoxQuad(id, xmin, ymin, xmax, ymax) ==
    Quad(id, << xmin, ymin >>, << xmax, ymin >>, << xmin, ymax >>, << xmax, ymax >>)

\* 1: outer 50 x 20 mm;  2: nested in 1;  3: same geometry as 1;  4: leaves the
\* box of 1 by 0.05 mm;  5: apart from all;  6: band between two 45-degree lines;
\* 7: inside band 6;  8: inside the bounding box of 6 but outside the band;
\* 9: a shorter band along 6 whose upper-left side lies 0.07 mm outside 6;
\* 10: a shorter band along 9 whose upper-left side lies 0.07 mm outside 9 and
\* 0.14 mm outside 6.
RectCatalogueD ==
    { BoxQuad(1, 0, 0, 1000, 400),
      BoxQuad(2, 100, 50, 900, 350),
      BoxQuad(3, 0, 0, 1000, 400),
      BoxQuad(4, 0, 0, 800, 401),
      BoxQuad(5, 2000, 0, 2400, 200),
      Quad(6, << 300, 0 >>, << 1300, 1000 >>, << 0, 300 >>, << 1000, 1300 >>),
      BoxQuad(7, 500, 550, 700, 750),
      BoxQuad(8, 900, 0, 1300, 200),
      Quad(9, << 400, 100 >>, << 1200, 900 >>, << 99, 401 >>, << 899, 1201 >>),
      Quad(10, << 500, 200 >>, << 1100, 800 >>, << 198, 502 >>, << 798, 1102 >>) }

InputsD == { s \in SeqsUpTo(RectCatalogueD, MaxRectsD) : IsInjective(s) }

InitD ==
    /\ phase = "D_input"
    /\ rectangles \in InputsD
    /\ logic_d_rectangles = <<>>
    /\ logic_e_rectangles = <<>>
    /\ logic_f_rectangles = <<>>
    /\ accepted = <<>>
    /\ IdleB /\ IdleDoors /\ IdleExec /\ IdleParallel

\* LogicDProcessor.process
LogicD ==
    /\ phase = "D_input"
    /\ logic_d_rectangles' =
          IF rectangles = <<>> THEN <<>>
          ELSE prune_contained_rectangles(rectangles, CONTAINMENT_TOL_UNITS)
    /\ phase' = "D_done"
    /\ UNCHANGED << rectangles, logic_e_rectangles, logic_f_rectangles, accepted,
                    varsB, varsDoors, varsExec, varsParallel >>

NextD == LogicD

SpecD == InitD /\ [][NextD]_vars

(***************************************************************************)
(* C2                                                                      *)
(***************************************************************************)
PolyOf(rect) == _pair_to_polygon(rect)

CoversD(ra, rb) == BufferedCovers(PolyOf(ra), PolyOf(rb), CONTAINMENT_TOL_UNITS)

\* C2 as stated: for any two distinct output rectangles A and B, A buffered by
\* 0.1 mm does not cover B.
C2_NoOutputCoversAnother ==
    phase = "D_done" =>
        \A a, b \in 1..Len(logic_d_rectangles) :
            a # b => ~CoversD(logic_d_rectangles[a], logic_d_rectangles[b])

\* C2 amended: for any two distinct output rectangles A and B such that
\* area(A) > area(B) + 1e-6 mm^2 and the bounding box of A contains the bounding
\* box of B, A buffered by 0.1 mm does not cover B.
C2_NoOutputCoveredByLarger ==
    phase = "D_done" =>
        \A a, b \in 1..Len(logic_d_rectangles) :
            LET pa == PolyOf(logic_d_rectangles[a])
                pb == PolyOf(logic_d_rectangles[b])
            IN  (a # b /\ AreaLarger(pa, pb) /\ EnvelopeContains(Envelope(pa), Envelope(pb)))
                    => ~BufferedCovers(pa, pb, CONTAINMENT_TOL_UNITS)

\* Pruning removed a rectangle, and the output still holds a rectangle inside
\* the bounding box of a larger one that does not cover it.
C2_Witness ==
    /\ phase = "D_done"
    /\ Len(logic_d_rectangles) < Len(rectangles)
    /\ \E a, b \in 1..Len(logic_d_rectangles) :
           LET pa == PolyOf(logic_d_rectangles[a])
               pb == PolyOf(logic_d_rectangles[b])
           IN  a # b /\ AreaLarger(pa, pb) /\ EnvelopeContains(Envelope(pa), Envelope(pb))

(***************************************************************************)
(* C8                                                                      *)
(***************************************************************************)
\* s with the elements outside keep deleted, order unchanged.
RECURSIVE Restrict(_, _)
Restrict(s, keep) ==
    IF s = <<>> THEN <<>>
    ELSE IF Head(s) \in keep THEN << Head(s) >> \o Restrict(Tail(s), keep)
    ELSE Restrict(Tail(s), keep)

\* C8: the output of Stage D is the input list with the contained rectangles
\* deleted, the survivors in their input order.
C8_OutputInInputOrder ==
    phase = "D_done" =>
        logic_d_rectangles = Restrict(rectangles, Range(logic_d_rectangles))

(***************************************************************************)
(* Stage E - logic_e_adjacent_merge_processor.py.  Unit: 0.05 mm, as in    *)
(* Stage D, so that coordinates fall on and between the 0.5 mm             *)
(* quantisation steps.                                                     *)
(***************************************************************************)
THICKNESS_MIN_MM == 20 * UnitsPerMmD

THICKNESS_MAX_MM == 450 * UnitsPerMmD

\* LINE_COORD_TOL_MM = 0.5 mm
LINE_COORD_TOL_MM == UnitsPerMmD \div 2

GAP_TOL_MM == 1 * UnitsPerMmD

\* (xmin, ymin, xmax, ymax) of the four points A.p1, A.p2, B.p1, B.p2.
BoundsOfPoints(points) ==
    << SetMin({ points[k][1] : k \in 1..4 }), SetMin({ points[k][2] : k \in 1..4 }),
       SetMax({ points[k][1] : k \in 1..4 }), SetMax({ points[k][2] : k \in 1..4 }) >>

_get_bounds(rect) == BoundsOfPoints(CornerList(rect))

\* A.p1 = (xmin, ymin), A.p2 = (xmax, ymin), B.p1 = (xmax, ymax), B.p2 = (xmin, ymax).
_bounds_to_quad_dict(xmin, ymin, xmax, ymax) ==
    [trimmedSegmentA |-> [p1 |-> << xmin, ymin >>, p2 |-> << xmax, ymin >>],
     trimmedSegmentB |-> [p1 |-> << xmax, ymax >>, p2 |-> << xmin, ymax >>],
     bounding_rectangle |-> [minX |-> xmin, minY |-> ymin, maxX |-> xmax, maxY |-> ymax]]

\* int(round(v / tol)): Python rounds ties to the even integer.
_quantize(v, tol) == RoundHalfEven(v, tol)

\* Lines 70-79; "N" stands for the None of an ineligible rectangle.
OrientationFrom(dx, dy, ok_h, ok_v) ==
    IF ok_h /\ ~ok_v THEN "H"
    ELSE IF ok_v /\ ~ok_h THEN "V"
    ELSE IF ok_h /\ ok_v THEN (IF dy <= dx THEN "H" ELSE "V")
    ELSE "N"

\* Lines 66-69.
OrientationOfExtent(dx, dy, thickness_min, thickness_max) ==
    OrientationFrom(dx, dy,
                    thickness_min <= dy /\ dy <= thickness_max /\ dx >= dy,
                    thickness_min <= dx /\ dx <= thickness_max /\ dy > dx)

_infer_orientation(xmin, ymin, xmax, ymax, thickness_min, thickness_max) ==
    OrientationOfExtent(xmax - xmin, ymax - ymin, thickness_min, thickness_max)

\* Lines 114-126: the tuple appended to eligible, with q_lo and q_hi computed.
EligibleTuple(rect, orientation, run_start, run_end, q_lo, q_hi, line_coord_tol) ==
    [rect |-> rect, orientation |-> orientation,
     run_start |-> run_start, run_end |-> run_end,
     band_key |-> << orientation, q_lo, q_hi >>,
     band_min |-> q_lo * line_coord_tol, band_max |-> q_hi * line_coord_tol]

\* Lines 109-126: NoValue for an ineligible rectangle.
ItemFrom(rect, b, orientation, line_coord_tol) ==
    IF orientation = "N" THEN NoValue
    ELSE IF orientation = "H"
    THEN EligibleTuple(rect, orientation, b[1], b[3],
                       _quantize(b[2], line_coord_tol), _quantize(b[4], line_coord_tol),
                       line_coord_tol)
    ELSE EligibleTuple(rect, orientation, b[2], b[4],
                       _quantize(b[1], line_coord_tol), _quantize(b[3], line_coord_tol),
                       line_coord_tol)

ItemFromBounds(rect, b, thickness_min, thickness_max, line_coord_tol) ==
    ItemFrom(rect, b,
             _infer_orientation(b[1], b[2], b[3], b[4], thickness_min, thickness_max),
             line_coord_tol)

\* One iteration of the loop of lines 100-126.
ItemOf(rect, thickness_min, thickness_max, line_coord_tol) ==
    ItemFromBounds(rect, _get_bounds(rect), thickness_min, thickness_max, line_coord_tol)

\* The list eligible after the loop of lines 100-126.
RECURSIVE EligibleOf(_, _, _, _)
EligibleOf(rects, thickness_min, thickness_max, line_coord_tol) ==
    IF rects = <<>> THEN <<>>
    ELSE (IF ItemOf(Head(rects), thickness_min, thickness_max, line_coord_tol) = NoValue
          THEN <<>>
          ELSE << ItemOf(Head(rects), thickness_min, thickness_max, line_coord_tol) >>)
         \o EligibleOf(Tail(rects), thickness_min, thickness_max, line_coord_tol)

\* The list ineligible after the loop of lines 100-126.
RECURSIVE IneligibleOf(_, _, _, _)
IneligibleOf(rects, thickness_min, thickness_max, line_coord_tol) ==
    IF rects = <<>> THEN <<>>
    ELSE (IF ItemOf(Head(rects), thickness_min, thickness_max, line_coord_tol) = NoValue
          THEN << Head(rects) >>
          ELSE <<>>)
         \o IneligibleOf(Tail(rects), thickness_min, thickness_max, line_coord_tol)

\* Lines 129-132: the keys of groups, in the order dict.setdefault inserted them.
RECURSIVE GroupKeys(_, _)
GroupKeys(eligible, keys) ==
    IF eligible = <<>> THEN keys
    ELSE IF Head(eligible).band_key \in Range(keys) THEN GroupKeys(Tail(eligible), keys)
    ELSE GroupKeys(Tail(eligible), Append(keys, Head(eligible).band_key))

\* groups[band_key]
GroupItems(eligible, band_key) == SelectSeq(eligible, LAMBDA t : t.band_key = band_key)

ApplyOrder(items, order) == [i \in 1..Len(order) |-> items[order[i]]]

\* The group left in the order of the input list.
SortByRunStartInputOrder(items) == items

\* Line 136: sorted(items, key=lambda t: t[6])
SortByRunStart(items) ==
    ApplyOrder(items, SortedIndices([k \in 1..Len(items) |-> << items[k].run_start >>]))

\* A run emitted as the first input rectangle of its group, as it came in.
EmitRunOriginalRect(first, cur_start, cur_end) == first.rect

\* Lines 149-152 and 155-158.
EmitRun(first, cur_start, cur_end) ==
    IF first.orientation = "H"
    THEN _bounds_to_quad_dict(cur_start, first.band_min, cur_end, first.band_max)
    ELSE _bounds_to_quad_dict(first.band_min, cur_start, first.band_max, cur_end)

\* Line 146 without the gap tolerance.
JoinsRunNoTolerance(next_start, cur_end, gap_tol) == next_start <= cur_end

\* Line 146.
JoinsRun(next_start, cur_end, gap_tol) == next_start <= cur_end + gap_tol

\* Lines 143-158: the linear merge scan over one sorted group.
RECURSIVE MergeScan(_, _, _, _, _, _)
MergeScan(items_sorted, i, cur_start, cur_end, out, gap_tol) ==
    IF i > Len(items_sorted)
    THEN Append(out, EmitRun(items_sorted[1], cur_start, cur_end))
    ELSE IF JoinsRun(items_sorted[i].run_start, cur_end, gap_tol)
    THEN MergeScan(items_sorted, i + 1, cur_start,
                   Max2(cur_end, items_sorted[i].run_end), out, gap_tol)
    ELSE MergeScan(items_sorted, i + 1,
                   items_sorted[i].run_start, items_sorted[i].run_end,
                   Append(out, EmitRun(items_sorted[1], cur_start, cur_end)), gap_tol)

\* Lines 136-158 for one group.
MergeGroup(items_sorted, out, gap_tol) ==
    MergeScan(items_sorted, 2, items_sorted[1].run_start, items_sorted[1].run_end,
              out, gap_tol)

\* Line 135: for band_key, items in groups.items()
RECURSIVE MergeGroups(_, _, _, _)
MergeGroups(keys, eligible, out, gap_tol) ==
    IF keys = <<>> THEN out
    ELSE MergeGroups(Tail(keys), eligible,
                     MergeGroup(SortByRunStart(GroupItems(eligible, Head(keys))), out, gap_tol),
                     gap_tol)

MergeEligible(eligible, gap_tol) == MergeGroups(GroupKeys(eligible, <<>>), eligible, <<>>, gap_tol)

merge_adjacent_rectangles(rects, thickness_min_mm, thickness_max_mm, line_coord_tol_mm, gap_tol_mm) ==
    IF rects = <<>> THEN <<>>
    ELSE MergeEligible(EligibleOf(rects, thickness_min_mm, thickness_max_mm, line_coord_tol_mm),
                       gap_tol_mm)
         \o IneligibleOf(rects, thickness_min_mm, thickness_max_mm, line_coord_tol_mm)

(***************************************************************************)
(* Stage E specification: the input is an output of Stage D.               *)
(***************************************************************************)
MaxRectsE == 3

\* In 0.05 mm units.  1, 2: touching, band (0, 40);  3: 5 mm after 2;
\* 4: starts 0.75 mm after 2, Y shifted by 0.25 mm (same band), reaches into 3;
\* 5: starts 1.05 mm after 2;  6: Y shifted by 0.75 mm (band (2, 42));
\* 7, 8: vertical, 0.5 mm apart;  9: band between two 45-degree lines, both
\* extents above 450 mm;  10: slanted quad with a 22 mm high bounding box;
\* 11: 15 mm thin;  12: spans from inside 1 to beyond 2, Y shifted by 0.25 mm.
RectCatalogueE ==
    { BoxQuad(1, 0, 0, 600, 400),
      BoxQuad(2, 600, 0, 1200, 400),
      BoxQuad(3, 1300, 0, 1900, 400),
      BoxQuad(4, 1215, 5, 1885, 405),
      BoxQuad(5, 1221, 0, 1700, 400),
      BoxQuad(6, 0, 15, 600, 415),
      BoxQuad(7, 0, 0, 400, 600),
      BoxQuad(8, 0, 610, 400, 1300),
      Quad(9, << 200, 0 >>, << 9300, 9100 >>, << 0, 200 >>, << 9100, 9300 >>),
      Quad(10, << 0, 2000 >>, << 4000, 2040 >>, << 0, 2400 >>, << 4000, 2440 >>),
      BoxQuad(11, 3000, 3000, 3600, 3300),
      BoxQuad(12, 500, 5, 1400, 405) }

\* The Stage D outputs for the input lists of up to MaxRectsE catalogue rectangles.
InputsE ==
    { prune_contained_rectangles(s, CONTAINMENT_TOL_UNITS) :
        s \in { t \in SeqsUpTo(RectCatalogueE, MaxRectsE) : IsInjective(t) /\ t # <<>> } }
    \cup { <<>> }

InitE ==
    /\ phase = "E_input"
    /\ logic_d_rectangles \in InputsE
    /\ rectangles = <<>>
    /\ logic_e_rectangles = <<>>
    /\ logic_f_rectangles = <<>>
    /\ accepted = <<>>
    /\ IdleB /\ IdleDoors /\ IdleExec /\ IdleParallel

\* LogicEProcessor.process
LogicE ==
    /\ phase = "E_input"
    /\ logic_e_rectangles' =
          IF logic_d_rectangles = <<>> THEN <<>>
          ELSE merge_adjacent_rectangles(logic_d_rectangles, THICKNESS_MIN_MM,
                                         THICKNESS_MAX_MM, LINE_COORD_TOL_MM, GAP_TOL_MM)
    /\ phase' = "E_done"
    /\ UNCHANGED << rectangles, logic_d_rectangles, logic_f_rectangles, accepted,
                    varsB, varsDoors, varsExec, varsParallel >>

NextE == LogicE

SpecE == InitE /\ [][NextE]_vars

(***************************************************************************)
(* C3                                                                      *)
(***************************************************************************)
\* The eligible tuples of the Stage E input, in input order.
EligibleInput ==
    EligibleOf(logic_d_rectangles, THICKNESS_MIN_MM, THICKNESS_MAX_MM, LINE_COORD_TOL_MM)

\* Positions of the output rectangles that Stage E built for a run (the
\* passed-through ones still carry their pair_id).
MergedPositions ==
    { k \in 1..Len(logic_e_rectangles) : "pair_id" \notin DOMAIN logic_e_rectangles[k] }

\* Run interval and perpendicular interval of output rectangle o, read along
\* the given orientation.
OutRun(o, orientation) ==
    IF orientation = "H"
    THEN << o.bounding_rectangle.minX, o.bounding_rectangle.maxX >>
    ELSE << o.bounding_rectangle.minY, o.bounding_rectangle.maxY >>

OutBand(o, orientation) ==
    IF orientation = "H"
    THEN << o.bounding_rectangle.minY, o.bounding_rectangle.maxY >>
    ELSE << o.bounding_rectangle.minX, o.bounding_rectangle.maxX >>

\* Eligible tuple t went into output rectangle o.
MemberOf(t, o) ==
    /\ OutBand(o, t.orientation) = << t.band_min, t.band_max >>
    /\ OutRun(o, t.orientation)[1] <= t.run_start
    /\ t.run_end <= OutRun(o, t.orientation)[2]

MembersOf(o) == { t \in Range(EligibleInput) : MemberOf(t, o) }

\* C3: every eligible rectangle goes into exactly one emitted rectangle, of its
\* own band; an emitted rectangle spans from the smallest start to the largest
\* end of its members, all of one band; every member but the first starts at
\* most 1.0 mm after the largest end of the members that start before it; and
\* two emitted rectangles of one band are more than 1.0 mm apart.
C3_RunsMerged ==
    phase = "E_done" =>
        /\ \A t \in Range(EligibleInput) :
               Cardinality({ k \in MergedPositions : MemberOf(t, logic_e_rectangles[k]) }) = 1
        /\ \A k \in MergedPositions :
               /\ MembersOf(logic_e_rectangles[k]) # {}
               /\ \A t, u \in MembersOf(logic_e_rectangles[k]) : t.band_key = u.band_key
               /\ \A t \in MembersOf(logic_e_rectangles[k]) :
                      /\ OutRun(logic_e_rectangles[k], t.orientation)[1] =
                           SetMin({ u.run_start : u \in MembersOf(logic_e_rectangles[k]) })
                      /\ OutRun(logic_e_rectangles[k], t.orientation)[2] =
                           SetMax({ u.run_end : u \in MembersOf(logic_e_rectangles[k]) })
                      /\ t.run_start > OutRun(logic_e_rectangles[k], t.orientation)[1] =>
                           \E u \in MembersOf(logic_e_rectangles[k]) :
                               /\ u.run_start < t.run_start
                               /\ t.run_start <= u.run_end + GAP_TOL_MM
        /\ \A j, k \in MergedPositions :
               \A t \in MembersOf(logic_e_rectangles[j]), u \in MembersOf(logic_e_rectangles[k]) :
                   (j # k /\ t.band_key = u.band_key) =>
                       \/ OutRun(logic_e_rectangles[j], t.orientation)[2] + GAP_TOL_MM
                            < OutRun(logic_e_rectangles[k], t.orientation)[1]
                       \/ OutRun(logic_e_rectangles[k], t.orientation)[2] + GAP_TOL_MM
                            < OutRun(logic_e_rectangles[j], t.orientation)[1]

\* One band yielded two emitted rectangles, one of them merged from several
\* input rectangles, while a rectangle of another band stayed on its own.
C3_Witness ==
    /\ phase = "E_done"
    /\ \E j, k \in MergedPositions :
           /\ j # k
           /\ Cardinality(MembersOf(logic_e_rectangles[j])) >= 2
           /\ \E t \in MembersOf(logic_e_rectangles[j]), u \in MembersOf(logic_e_rectangles[k]) :
                  t.band_key = u.band_key

(***************************************************************************)
(* C9                                                                      *)
(***************************************************************************)
\* Every edge of the quad, taken around its corner ring, is parallel to X or Y.
AxisAlignedRing(ring) ==
    \A k \in 1..4 :
        \/ ring[k][1] = ring[(k % 4) + 1][1]
        \/ ring[k][2] = ring[(k % 4) + 1][2]

AxisAligned(rect) == AxisAlignedRing(_order_quad_corners_xy(CornerList(rect)))

\* C9 as stated: every rectangle of logic_e_rectangles, merged or passed
\* through, is axis-aligned.
C9_AllOutputsAxisAligned ==
    phase = "E_done" =>
        \A k \in 1..Len(logic_e_rectangles) : AxisAligned(logic_e_rectangles[k])

\* C9 amended: every rectangle that Stage E emits for a run is axis-aligned;
\* every other output rectangle is an ineligible input rectangle, unchanged.
C9_MergedAxisAligned ==
    phase = "E_done" =>
        \A k \in 1..Len(logic_e_rectangles) :
            IF k \in MergedPositions
            THEN AxisAligned(logic_e_rectangles[k])
            ELSE /\ logic_e_rectangles[k] \in Range(logic_d_rectangles)
                 /\ ItemOf(logic_e_rectangles[k], THICKNESS_MIN_MM, THICKNESS_MAX_MM,
                           LINE_COORD_TOL_MM) = NoValue

\* A slanted input quad was eligible and Stage E emitted a rectangle for its run.
C9_Witness ==
    /\ phase = "E_done"
    /\ \E t \in Range(EligibleInput) :
           /\ ~AxisAligned(t.rect)
           /\ \E k \in MergedPositions : MemberOf(t, logic_e_rectangles[k])

(***************************************************************************)
(* Stage F - logic_f_l_junctions_processor.py.  Unit: 1 mm.  The catalogue *)
(* holds axis-parallel quads whose centre lines have integer coordinates,  *)
(* on which every value the code computes is an integer.                   *)
(***************************************************************************)
UnitsPerMmF == 1

THICKNESS_MIN_F == 20 * UnitsPerMmF

THICKNESS_MAX_F == 450 * UnitsPerMmF

LOGIC_F_MAX_EXTENSION_MM == 300 * UnitsPerMmF

LOGIC_F_MAX_JUNCTION_DISTANCE_MM == 400 * UnitsPerMmF

\* LOGIC_F_ANGLE_DOT_TOL = 0.3, as a fraction.
AngleDotTolNum == 3

AngleDotTolDen == 10

\* a / b for b # 0, exact where b divides a.
ExactDiv(a, b) == IF b < 0 THEN FloorDiv(-a, -b) ELSE FloorDiv(a, b)

_unit(v) == Scale2(v[1], v[2], Hypot(v[1], v[2]))

_dot(u, v) == u[1] * v[1] + u[2] * v[2]

_dist(p, q) == Hypot(p[1] - q[1], p[2] - q[2])

_perp(u) == _unit(<< -u[2], u[1] >>)

\* The distance from p to its foot on the line is |cross(d, p - a)| / |d|.
DistanceAlong(p, a, dx, dy) ==
    IF dx * dx + dy * dy <= 0 THEN _dist(p, a)
    ELSE Abs(dx * (p[2] - a[2]) - dy * (p[1] - a[1])) \div Hypot(dx, dy)

_distance_point_to_infinite_line(p, a, b) == DistanceAlong(p, a, b[1] - a[1], b[2] - a[2])

\* (ax + t * dx, ay + t * dy) with t = tnum / L2.
ProjectAlong(a, dx, dy, tnum, L2) ==
    IF L2 <= 0 THEN a
    ELSE << a[1] + ExactDiv(tnum * dx, L2), a[2] + ExactDiv(tnum * dy, L2) >>

ProjectOnto(p, a, dx, dy) ==
    ProjectAlong(a, dx, dy, (p[1] - a[1]) * dx + (p[2] - a[2]) * dy, dx * dx + dy * dy)

_project_point_onto_infinite_line(p, a, b) == ProjectOnto(p, a, b[1] - a[1], b[2] - a[2])

\* Lines 96-99; abs(denom) < 1e-12 is denom = 0 on integers.
IntersectionFrom(a1, a2, denom, tnum) ==
    IF denom = 0 THEN NoValue
    ELSE << a1[1] + ExactDiv(tnum * (a2[1] - a1[1]), denom),
            a1[2] + ExactDiv(tnum * (a2[2] - a1[2]), denom) >>

_line_intersection(a1, a2, b1, b2) ==
    IntersectionFrom(a1, a2,
        (a1[1] - a2[1]) * (b1[2] - b2[2]) - (a1[2] - a2[2]) * (b1[1] - b2[1]),
        (a1[1] - b1[1]) * (b1[2] - b2[2]) - (a1[2] - b1[2]) * (b1[1] - b2[1]))

_get_segment_points(rect) == CornerList(rect)

\* Lines 142-156, after ok_h and ok_v.
OrientationFromF(dx, dy, ok_h, ok_v) ==
    IF ok_h /\ ~ok_v THEN "H"
    ELSE IF ok_v /\ ~ok_h THEN "V"
    ELSE IF ok_h /\ ok_v THEN (IF dy <= dx THEN "H" ELSE "V")
    ELSE IF dx < 1 * UnitsPerMmF /\ dy < 1 * UnitsPerMmF THEN "N"
    ELSE IF dx >= dy THEN "H"
    ELSE "V"

OrientationOfExtentF(dx, dy, thickness_min, thickness_max) ==
    OrientationFromF(dx, dy,
                     thickness_min <= dy /\ dy <= thickness_max /\ dx >= dy,
                     thickness_min <= dx /\ dx <= thickness_max /\ dy > dx)

\* _infer_orientation of logic_f_l_junctions_processor.py (with the aspect-ratio
\* fallback); "N" stands for None.
_infer_orientation_F(xmin, ymin, xmax, ymax, thickness_min, thickness_max) ==
    OrientationOfExtentF(xmax - xmin, ymax - ymin, thickness_min, thickness_max)

\* max(0.0, lo - p, p - hi)
Outside(p, lo, hi) == Max2(0, Max2(lo - p, p - hi))

_distance_point_to_rect(p, xmin, ymin, xmax, ymax) ==
    Hypot(Outside(p[1], xmin, xmax), Outside(p[2], ymin, ymax))

\* Lines 192-208.
WallDirected(A_p1, A_p2, B_p1, B_p2, c1, c2, u) ==
    IF u = << 0, 0 >> THEN NoValue
    ELSE [c1 |-> c1, c2 |-> c2, u |-> u, n |-> _perp(u),
          w |-> (_distance_point_to_infinite_line(A_p1, B_p1, B_p2)
                   + _distance_point_to_infinite_line(B_p1, A_p1, A_p2)) \div 2,
          ap1 |-> A_p1, ap2 |-> A_p2, bp1 |-> B_p1, bp2 |-> B_p2,
          a_is_plus_n |-> _dot(<< A_p1[1] - c1[1], A_p1[2] - c1[2] >>, _perp(u)) > 0]

\* Line 189.
WallCentered(A_p1, A_p2, B_p1, B_p2, c1, c2) ==
    WallDirected(A_p1, A_p2, B_p1, B_p2, c1, c2, _unit(<< c2[1] - c1[1], c2[2] - c1[2] >>))

\* Lines 187-188.
WallOriented(A_p1, A_p2, B_p1, B_p2) ==
    WallCentered(A_p1, A_p2, B_p1, B_p2,
                 << FloorDiv(A_p1[1] + B_p1[1], 2), FloorDiv(A_p1[2] + B_p1[2], 2) >>,
                 << FloorDiv(A_p2[1] + B_p2[1], 2), FloorDiv(A_p2[2] + B_p2[2], 2) >>)

\* Lines 180-186: B is turned round when it runs against A.
WallFromPoints(A_p1, A_p2, B_p1, B_p2) ==
    IF _dot(_unit(<< A_p2[1] - A_p1[1], A_p2[2] - A_p1[2] >>),
            _unit(<< B_p2[1] - B_p1[1], B_p2[2] - B_p1[2] >>)) < 0
    THEN WallOriented(A_p1, A_p2, B_p2, B_p1)
    ELSE WallOriented(A_p1, A_p2, B_p1, B_p2)

WallFromList(pts) == WallFromPoints(pts[1], pts[2], pts[3], pts[4])

_wall_representation(rect) == WallFromList(_get_segment_points(rect))

\* Lines 234-244: the bounding_rectangle recomputed from the four corners.
WithBounds(rect, b) ==
    IF "bounding_rectangle" \in DOMAIN rect
    THEN [rect EXCEPT !.bounding_rectangle =
              [minX |-> b[1], minY |-> b[2], maxX |-> b[3], maxY |-> b[4]]]
    ELSE rect

Rebounded(rect) == WithBounds(rect, _get_bounds(rect))

MoveEndKeepBounds(out_rect, extend_c1, A_end_new, B_end_new) ==
    IF extend_c1
    THEN [out_rect EXCEPT !.trimmedSegmentA.p1 = A_end_new,
                          !.trimmedSegmentB.p1 = B_end_new]
    ELSE [out_rect EXCEPT !.trimmedSegmentA.p2 = A_end_new,
                          !.trimmedSegmentB.p2 = B_end_new]

\* Lines 222-233.
MoveEnd(out_rect, extend_c1, A_end_new, B_end_new) ==
    Rebounded(IF extend_c1
              THEN [out_rect EXCEPT !.trimmedSegmentA.p1 = A_end_new,
                                    !.trimmedSegmentB.p1 = B_end_new]
              ELSE [out_rect EXCEPT !.trimmedSegmentA.p2 = A_end_new,
                                    !.trimmedSegmentB.p2 = B_end_new])

\* Lines 218-221: A_end_new = c_end_new + n * (w / 2), B_end_new = c_end_new - n * (w / 2).
_apply_extension(out_rect, wall_repr, extend_c1, c_end_new) ==
    MoveEnd(out_rect, extend_c1,
            << c_end_new[1] + wall_repr.n[1] * (wall_repr.w \div 2),
               c_end_new[2] + wall_repr.n[2] * (wall_repr.w \div 2) >>,
            << c_end_new[1] - wall_repr.n[1] * (wall_repr.w \div 2),
               c_end_new[2] - wall_repr.n[2] * (wall_repr.w \div 2) >>)

\* Lines 337-339 without the limit on the extension length.
FeasibleEndAnyLength(extend_c1, ext_len, dist_to_rect, max_extension_mm) ==
    [extend_c1 |-> extend_c1, ext_len |-> ext_len, dist_to_rect |-> dist_to_rect]

\* Lines 337-339.
FeasibleEnd(extend_c1, ext_len, dist_to_rect, max_extension_mm) ==
    IF ext_len > max_extension_mm THEN NoValue
    ELSE [extend_c1 |-> extend_c1, ext_len |-> ext_len, dist_to_rect |-> dist_to_rect]

\* Lines 329-336: the end nearer to X is the one to extend.
FeasibleRun(ext_len_1, ext_len_2, dist_to_rect, max_extension_mm) ==
    IF ext_len_1 <= ext_len_2
    THEN FeasibleEnd(TRUE, ext_len_1, dist_to_rect, max_extension_mm)
    ELSE FeasibleEnd(FALSE, ext_len_2, dist_to_rect, max_extension_mm)

\* Lines 318-328.
FeasibleAt(w, orient, X, dist_to_rect, max_extension_mm, max_junction_distance_mm) ==
    IF dist_to_rect > max_junction_distance_mm THEN NoValue
    ELSE IF orient = "H"
    THEN FeasibleRun(Abs(X[1] - w.c1[1]), Abs(X[1] - w.c2[1]), dist_to_rect, max_extension_mm)
    ELSE FeasibleRun(Abs(X[2] - w.c1[2]), Abs(X[2] - w.c2[2]), dist_to_rect, max_extension_mm)

\* The closure _feasibility of lines 310-339, with X passed in.
_feasibility(w, b, orient, X, max_extension_mm, max_junction_distance_mm) ==
    FeasibleAt(w, orient, X, _distance_point_to_rect(X, b[1], b[2], b[3], b[4]),
               max_extension_mm, max_junction_distance_mm)

\* Line 351 for the dot products of axis directions: acos(0) is 90 degrees,
\* acos(1) is 0 degrees.
AngularErr(adot) == IF adot = 0 THEN 0 ELSE 90

\* Lines 346-354.
CandidateScored(i, j, X, fi, fj, angular_err) ==
    [i |-> i, j |-> j, X |-> X,
     extend_c1_i |-> fi.extend_c1, extend_c1_j |-> fj.extend_c1,
     ext_len_i |-> fi.ext_len, ext_len_j |-> fj.ext_len,
     dist_i |-> fi.dist_to_rect, dist_j |-> fj.dist_to_rect,
     score |-> angular_err + (fi.ext_len + fj.ext_len) + (fi.dist_to_rect + fj.dist_to_rect)]

\* Lines 341-351.
CandidateFeasible(i, j, X, fi, fj, adot) ==
    IF fi = NoValue \/ fj = NoValue THEN NoValue
    ELSE CandidateScored(i, j, X, fi, fj, AngularErr(adot))

\* Lines 302-342.
CandidateAt(i, j, wi, wj, bi, bj, oi, oj, X, max_extension_mm, max_junction_distance_mm) ==
    IF X = NoValue THEN NoValue
    ELSE CandidateFeasible(i, j, X,
             _feasibility(wi, bi, oi, X, max_extension_mm, max_junction_distance_mm),
             _feasibility(wj, bj, oj, X, max_extension_mm, max_junction_distance_mm),
             Abs(_dot(wi.u, wj.u)))

\* Lines 283-302: one pair i < j of the double loop; NoValue when it is skipped.
CandidatePair(i, j, wi, wj, bi, bj, oi, oj, max_extension_mm, max_junction_distance_mm) ==
    IF oi = "N" \/ wi = NoValue \/ oj = "N" \/ wj = NoValue THEN NoValue
    ELSE IF oi = oj THEN NoValue
    ELSE IF Abs(_dot(wi.u, wj.u)) * AngleDotTolDen > AngleDotTolNum THEN NoValue
    ELSE CandidateAt(i, j, wi, wj, bi, bj, oi, oj,
                     _line_intersection(wi.c1, wi.c2, wj.c1, wj.c2),
                     max_extension_mm, max_junction_distance_mm)

AppendCandidate(candidates, c) == IF c = NoValue THEN candidates ELSE Append(candidates, c)

\* Lines 282-354: candidates in the order the double loop appends them.
RECURSIVE CandidatesFrom(_, _, _, _, _, _, _, _)
CandidatesFrom(i, j, orientations, wall_reprs, bounds_list, candidates,
               max_extension_mm, max_junction_distance_mm) ==
    IF i > Len(orientations) THEN candidates
    ELSE IF j > Len(orientations)
    THEN CandidatesFrom(i + 1, i + 2, orientations, wall_reprs, bounds_list, candidates,
                        max_extension_mm, max_junction_distance_mm)
    ELSE CandidatesFrom(i, j + 1, orientations, wall_reprs, bounds_list,
             AppendCandidate(candidates,
                 CandidatePair(i, j, wall_reprs[i], wall_reprs[j],
                               bounds_list[i], bounds_list[j],
                               orientations[i], orientations[j],
                               max_extension_mm, max_junction_distance_mm)),
             max_extension_mm, max_junction_distance_mm)

\* The candidates left in the order the double loop appended them.
SortByScoreInputOrder(candidates) == candidates

\* Line 357: candidates.sort(key=lambda c: c[9])
SortByScore(candidates) ==
    ApplyOrder(candidates, SortedIndices([k \in 1..Len(candidates) |-> << candidates[k].score >>]))

\* Line 365 with "and" in the place of "or".
IsLockedBoth(i, j, locked) == i \in locked /\ j \in locked

\* Line 365.
IsLocked(i, j, locked) == i \in locked \/ j \in locked

\* Lines 360-369.
RECURSIVE GreedyAccept(_, _, _, _)
GreedyAccept(candidates, k, locked, acc) ==
    IF k > Len(candidates) THEN acc
    ELSE IF IsLocked(candidates[k].i, candidates[k].j, locked)
    THEN GreedyAccept(candidates, k + 1, locked, acc)
    ELSE GreedyAccept(candidates, k + 1, locked \cup { candidates[k].i, candidates[k].j },
                      Append(acc, [i |-> candidates[k].i, j |-> candidates[k].j,
                                   X |-> candidates[k].X,
                                   extend_c1_i |-> candidates[k].extend_c1_i,
                                   extend_c1_j |-> candidates[k].extend_c1_j]))

\* Lines 383-390 for one participant: its rectangle extended, its junction point kept.
ExtendOne(asm, idx, w, extend_c1, c_end_new) ==
    [output |-> [asm.output EXCEPT ![idx] = _apply_extension(asm.output[idx], w, extend_c1, c_end_new)],
     junction_point_by_index |-> [asm.junction_point_by_index EXCEPT ![idx] = c_end_new]]

\* Lines 376-390 for one accepted pair.
ExtendPair(asm, a, wi, wj) ==
    ExtendOne(ExtendOne(asm, a.i, wi, a.extend_c1_i,
                        _project_point_onto_infinite_line(a.X, wi.c1, wi.c2)),
              a.j, wj, a.extend_c1_j,
              _project_point_onto_infinite_line(a.X, wj.c1, wj.c2))

RECURSIVE ExtendAccepted(_, _, _, _)
ExtendAccepted(acc, k, wall_reprs, asm) ==
    IF k > Len(acc) THEN asm
    ELSE ExtendAccepted(acc, k + 1, wall_reprs,
                        ExtendPair(asm, acc[k], wall_reprs[acc[k].i], wall_reprs[acc[k].j]))

\* Lines 392-399 writing the three junction fields into every rectangle.
FlaggedAll(r, junction_point) ==
    [extended |-> junction_point # NoValue, junction_type |-> "L",
     junction_point |-> junction_point] @@ r

\* Lines 392-399.
Flagged(r, junction_point) ==
    IF junction_point # NoValue
    THEN [extended |-> TRUE, junction_type |-> "L", junction_point |-> junction_point] @@ r
    ELSE [extended |-> FALSE] @@ r

FlagOutput(asm) ==
    [idx \in 1..Len(asm.output) |-> Flagged(asm.output[idx], asm.junction_point_by_index[idx])]

\* Lines 371-403.
Assemble(rects, wall_reprs, num_candidates, acc) ==
    [output |-> FlagOutput(ExtendAccepted(acc, 1, wall_reprs,
                    [output |-> rects,
                     junction_point_by_index |-> [idx \in 1..Len(rects) |-> NoValue]])),
     num_candidates |-> num_candidates,
     accepted |-> acc]

\* Lines 356-369.
AcceptFrom(rects, wall_reprs, candidates) ==
    Assemble(rects, wall_reprs, Len(candidates), GreedyAccept(SortByScore(candidates), 1, {}, <<>>))

\* Lines 278-354.
ProcessPrepared(rects, orientations, wall_reprs, bounds_list,
                max_extension_mm, max_junction_distance_mm) ==
    AcceptFrom(rects, wall_reprs,
               CandidatesFrom(1, 2, orientations, wall_reprs, bounds_list, <<>>,
                              max_extension_mm, max_junction_distance_mm))

OrientationOfBounds(b) ==
    _infer_orientation_F(b[1], b[2], b[3], b[4], THICKNESS_MIN_F, THICKNESS_MAX_F)

\* Lines 257-276; indices are 1-based here and 0-based in the code.
_process_l_junctions(rects, max_extension_mm, max_junction_distance_mm) ==
    IF rects = <<>> THEN [output |-> <<>>, num_candidates |-> 0, accepted |-> <<>>]
    ELSE ProcessPrepared(rects,
             [k \in 1..Len(rects) |-> OrientationOfBounds(_get_bounds(rects[k]))],
             [k \in 1..Len(rects) |-> _wall_representation(rects[k])],
             [k \in 1..Len(rects) |-> _get_bounds(rects[k])],
             max_extension_mm, max_junction_distance_mm)

(***************************************************************************)
(* Stage F specification                                                   *)
(***************************************************************************)
MaxRectsF == 3

\* A quad dict as the tests of the repository build it (_rect).
FRect(a1, a2, b1, b2) ==
    Rebounded([trimmedSegmentA |-> [p1 |-> a1, p2 |-> a2],
               trimmedSegmentB |-> [p1 |-> b1, p2 |-> b2],
               bounding_rectangle |-> [minX |-> 0, minY |-> 0, maxX |-> 0, maxY |-> 0]])

\* 1: horizontal wall, A its lower edge;  2: vertical wall at the left end of 1;
\* 3: the geometry of 1 with A its upper edge;  4: vertical wall 100 mm beyond
\* the right end of 1, carrying the pair_id of a Stage B pair;  5: horizontal wall above 2, as Stage E lays it out;
\* 6: the geometry of 4 as Stage E lays it out;  7: all corners in one point;
\* 8: both segments of length 0;  9: vertical wall 325 mm beyond the right end
\* of 1;  10: vertical wall 425 mm beyond it;  11, 12: the geometry of 1 and
\* of 2 as Stage E lays them out.
RectCatalogueF ==
    { _bounds_to_quad_dict(0, 0, 1000, 50),
      _bounds_to_quad_dict(0, 0, 50, 500),
      FRect(<< 0, 0 >>, << 1000, 0 >>, << 0, 50 >>, << 1000, 50 >>),
      FRect(<< 0, 0 >>, << 0, 500 >>, << 50, 0 >>, << 50, 500 >>),
      FRect(<< 0, 50 >>, << 1000, 50 >>, << 0, 0 >>, << 1000, 0 >>),
      [pair_id |-> "pair-4"] @@ FRect(<< 1100, 0 >>, << 1100, 400 >>, << 1150, 0 >>, << 1150, 400 >>),
      _bounds_to_quad_dict(0, 600, 800, 650),
      _bounds_to_quad_dict(1100, 0, 1150, 400),
      FRect(<< 0, 0 >>, << 0, 0 >>, << 0, 0 >>, << 0, 0 >>),
      FRect(<< 300, 300 >>, << 300, 300 >>, << 300, 350 >>, << 300, 350 >>),
      FRect(<< 1325, 0 >>, << 1325, 400 >>, << 1375, 0 >>, << 1375, 400 >>),
      FRect(<< 1400, 0 >>, << 1400, 400 >>, << 1450, 0 >>, << 1450, 400 >>) }

InputsF == { s \in SeqsUpTo(RectCatalogueF, MaxRectsF) : IsInjective(s) }

InitF ==
    /\ phase = "F_input"
    /\ logic_e_rectangles \in InputsF
    /\ rectangles = <<>>
    /\ logic_d_rectangles = <<>>
    /\ logic_f_rectangles = <<>>
    /\ accepted = <<>>
    /\ IdleB /\ IdleDoors /\ IdleExec /\ IdleParallel

\* LogicFProcessor.process
LogicF ==
    /\ phase = "F_input"
    /\ logic_f_rectangles' =
          _process_l_junctions(logic_e_rectangles, LOGIC_F_MAX_EXTENSION_MM,
                               LOGIC_F_MAX_JUNCTION_DISTANCE_MM).output
    /\ accepted' =
          _process_l_junctions(logic_e_rectangles, LOGIC_F_MAX_EXTENSION_MM,
                               LOGIC_F_MAX_JUNCTION_DISTANCE_MM).accepted
    /\ phase' = "F_done"
    /\ UNCHANGED << rectangles, logic_d_rectangles, logic_e_rectangles,
                    varsB, varsDoors, varsExec, varsParallel >>

NextF == LogicF

SpecF == InitF /\ [][NextF]_vars

(***************************************************************************)
(* C4                                                                      *)
(***************************************************************************)
ExtendedPositions ==
    { k \in 1..Len(logic_f_rectangles) : logic_f_rectangles[k].extended }

PairOf(a) == { a.i, a.j }

\* C4: the accepted junctions are pairwise disjoint pairs of two different
\* rectangles, and the number of output rectangles with extended = true is
\* twice the number of accepted junctions.
C4_AcceptedPairsDisjoint ==
    phase = "F_done" =>
        /\ \A a \in 1..Len(accepted) : accepted[a].i # accepted[a].j
        /\ \A a, b \in 1..Len(accepted) :
               a # b => PairOf(accepted[a]) \cap PairOf(accepted[b]) = {}
        /\ Cardinality(ExtendedPositions) = 2 * Len(accepted)

\* A junction was accepted and another candidate was turned down because one
\* of its rectangles was locked.
C4_Witness ==
    /\ phase = "F_done"
    /\ Len(accepted) >= 1
    /\ _process_l_junctions(logic_e_rectangles, LOGIC_F_MAX_EXTENSION_MM,
                            LOGIC_F_MAX_JUNCTION_DISTANCE_MM).num_candidates > Len(accepted)

(***************************************************************************)
(* C10                                                                     *)
(***************************************************************************)
\* p lies on the infinite line through the end points of seg.
OnLineOf(p, seg) ==
    (seg.p2[1] - seg.p1[1]) * (p[2] - seg.p1[2])
        = (seg.p2[2] - seg.p1[2]) * (p[1] - seg.p1[1])

\* C10: an axis-aligned rectangle that Stage F extended is still axis-aligned,
\* the end points of its segment A on the line of the input's segment A and the
\* end points of its segment B on the line of the input's segment B.
C10_ExtendedStaysAxisAligned ==
    phase = "F_done" =>
        \A k \in ExtendedPositions :
            AxisAligned(logic_e_rectangles[k]) =>
                /\ OnLineOf(logic_f_rectangles[k].trimmedSegmentA.p1, logic_e_rectangles[k].trimmedSegmentA)
                /\ OnLineOf(logic_f_rectangles[k].trimmedSegmentA.p2, logic_e_rectangles[k].trimmedSegmentA)
                /\ OnLineOf(logic_f_rectangles[k].trimmedSegmentB.p1, logic_e_rectangles[k].trimmedSegmentB)
                /\ OnLineOf(logic_f_rectangles[k].trimmedSegmentB.p2, logic_e_rectangles[k].trimmedSegmentB)
                /\ AxisAligned(logic_f_rectangles[k])

(***************************************************************************)
(* C11                                                                     *)
(***************************************************************************)
\* The horizontal rectangle (0..1000, 0..50) and the vertical rectangle
\* (0..50, 0..500) as Stage E emits them.
StageEPairOfS4 == << _bounds_to_quad_dict(0, 0, 1000, 50), _bounds_to_quad_dict(0, 0, 50, 500) >>

\* C11: given the Stage E rectangles (0..1000, 0..50) and (0..50, 0..500),
\* whose centre-lines meet at (25, 25) within the feasibility bounds, Stage F
\* tags both extended and records (25, 25) as their junction point.
C11_StageERectanglesExtended ==
    (phase = "F_done" /\ logic_e_rectangles = StageEPairOfS4) =>
        \A k \in 1..2 :
            /\ logic_f_rectangles[k].extended
            /\ logic_f_rectangles[k].junction_point = << 25, 25 >>

(***************************************************************************)
(* C12                                                                     *)
(***************************************************************************)
\* The (1-based) positions of the rectangles of accepted junctions.
AcceptedIndices == UNION { PairOf(accepted[a]) : a \in 1..Len(accepted) }

\* Both segments of o keep the end point named by the given field of i.
KeepsEnd(o, i, p1_end) ==
    IF p1_end
    THEN o.trimmedSegmentA.p1 = i.trimmedSegmentA.p1 /\ o.trimmedSegmentB.p1 = i.trimmedSegmentB.p1
    ELSE o.trimmedSegmentA.p2 = i.trimmedSegmentA.p2 /\ o.trimmedSegmentB.p2 = i.trimmedSegmentB.p2

\* C12: the output of Stage F has the length and order of its input; a
\* rectangle outside every accepted junction is its input rectangle with the
\* one added field extended = FALSE (no junction_point, no junction_type);
\* exactly the rectangles of accepted junctions carry extended = TRUE,
\* junction_type = "L" and a two-element junction_point, and they are the
\* input rectangle at the same position with one end moved.
C12_OutputFrame ==
    phase = "F_done" =>
        /\ Len(logic_f_rectangles) = Len(logic_e_rectangles)
        /\ \A k \in 1..Len(logic_f_rectangles) :
               IF k \in AcceptedIndices
               THEN /\ logic_f_rectangles[k].extended
                    /\ logic_f_rectangles[k].junction_type = "L"
                    /\ Len(logic_f_rectangles[k].junction_point) = 2
                    /\ DOMAIN logic_f_rectangles[k]
                           = DOMAIN logic_e_rectangles[k]
                               \cup { "extended", "junction_type", "junction_point" }
                    /\ \/ KeepsEnd(logic_f_rectangles[k], logic_e_rectangles[k], TRUE)
                       \/ KeepsEnd(logic_f_rectangles[k], logic_e_rectangles[k], FALSE)
               ELSE /\ ~logic_f_rectangles[k].extended
                    /\ DOMAIN logic_f_rectangles[k] = DOMAIN logic_e_rectangles[k] \cup { "extended" }
                    /\ \A fld \in DOMAIN logic_e_rectangles[k] :
                           logic_f_rectangles[k][fld] = logic_e_rectangles[k][fld]

\* A junction was accepted next to a rectangle that takes part in none and
\* carries a field of its own (pair_id).
C12_Witness ==
    /\ phase = "F_done"
    /\ Len(accepted) >= 1
    /\ \E k \in 1..Len(logic_f_rectangles) :
           /\ k \notin AcceptedIndices
           /\ "pair_id" \in DOMAIN logic_e_rectangles[k]

(***************************************************************************)
(* C13                                                                     *)
(***************************************************************************)
\* Segment B of r runs against segment A (the test of lines 183-184).
RunsAgainst(r) ==
    (r.trimmedSegmentA.p2[1] - r.trimmedSegmentA.p1[1]) * (r.trimmedSegmentB.p2[1] - r.trimmedSegmentB.p1[1])
      + (r.trimmedSegmentA.p2[2] - r.trimmedSegmentA.p1[2]) * (r.trimmedSegmentB.p2[2] - r.trimmedSegmentB.p1[2])
        < 0

\* Twice the end points c1 and c2 of the centre-line that
\* _wall_representation gives for r: A.p1 + B.p1 and A.p2 + B.p2, B turned
\* round first when it runs against A.
CentreLineTwice(r) ==
    IF RunsAgainst(r)
    THEN << << r.trimmedSegmentA.p1[1] + r.trimmedSegmentB.p2[1],
               r.trimmedSegmentA.p1[2] + r.trimmedSegmentB.p2[2] >>,
            << r.trimmedSegmentA.p2[1] + r.trimmedSegmentB.p1[1],
               r.trimmedSegmentA.p2[2] + r.trimmedSegmentB.p1[2] >> >>
    ELSE << << r.trimmedSegmentA.p1[1] + r.trimmedSegmentB.p1[1],
               r.trimmedSegmentA.p1[2] + r.trimmedSegmentB.p1[2] >>,
            << r.trimmedSegmentA.p2[1] + r.trimmedSegmentB.p2[1],
               r.trimmedSegmentA.p2[2] + r.trimmedSegmentB.p2[2] >> >>

\* |cross| <= sqrt(len2) on integers, without squaring beyond 32 bits.
AtMostRoot(cross, len2) == Abs(cross) <= 46340 /\ cross * cross <= len2

\* Point p is within 0.5 mm of the infinite line through c1 = cl[1] / 2 and
\* c2 = cl[2] / 2 (1 unit = 1 mm): with d = cl[2] - cl[1] = 2 (c2 - c1) and
\* q = 2 p - cl[1] = 2 (p - c1), the distance is |d x q| / (2 |d|).
NearLineTwice(p, cl) ==
    /\ cl[1] # cl[2]
    /\ AtMostRoot((cl[2][1] - cl[1][1]) * (2 * p[2] - cl[1][2])
                     - (cl[2][2] - cl[1][2]) * (2 * p[1] - cl[1][1]),
                  (cl[2][1] - cl[1][1]) * (cl[2][1] - cl[1][1])
                     + (cl[2][2] - cl[1][2]) * (cl[2][2] - cl[1][2]))

OnCentreLine(p, r) == NearLineTwice(p, CentreLineTwice(r))

\* C13: the junction_point of every extended rectangle lies within 0.5 mm of
\* the centre-line recomputed from the rectangle's output corners, and also of
\* the recomputed centre-line of the other rectangle of its junction.
C13_JunctionPointOnCentreLines ==
    phase = "F_done" =>
        \A a \in 1..Len(accepted) :
            /\ OnCentreLine(logic_f_rectangles[accepted[a].i].junction_point,
                            logic_f_rectangles[accepted[a].i])
            /\ OnCentreLine(logic_f_rectangles[accepted[a].j].junction_point,
                            logic_f_rectangles[accepted[a].j])
            /\ OnCentreLine(logic_f_rectangles[accepted[a].i].junction_point,
                            logic_f_rectangles[accepted[a].j])
            /\ OnCentreLine(logic_f_rectangles[accepted[a].j].junction_point,
                            logic_f_rectangles[accepted[a].i])

\* The same for the rectangles whose segments A and B run the same way.
JunctionPointOnCentreLinesSameWay ==
    phase = "F_done" =>
        \A k \in ExtendedPositions :
            ~RunsAgainst(logic_e_rectangles[k]) =>
                OnCentreLine(logic_f_rectangles[k].junction_point, logic_f_rectangles[k])

(***************************************************************************)
(* Door bridge - door_bridge_processor.py.  Unit: 0.5 mm, so that the      *)
(* centres and gap midpoints of integer-mm bounds are integers.            *)
(* _get_door_center is imported from door_rectangle_assignment_processor,  *)
(* which does not define it; its result per door is an input here          *)
(* (door_center), a point or NoValue.                                      *)
(***************************************************************************)
UnitsPerMmBridge == 2

BRIDGE_ALIGNMENT_TOL_MM == 50 * UnitsPerMmBridge

BRIDGE_MAX_GAP_MM == 2000 * UnitsPerMmBridge

_bounds_center(b) == << (b[1] + b[3]) \div 2, (b[2] + b[4]) \div 2 >>

\* The square of _distance; the sort of line 256 orders by it as by the distance.
DistanceSquared(xy1, xy2) ==
    (xy2[1] - xy1[1]) * (xy2[1] - xy1[1]) + (xy2[2] - xy1[2]) * (xy2[2] - xy1[2])

\* Lines 40-43 (and 72-75, 98-101, 115-118): the inner edges, first rectangle
\* first when its centre is not beyond the other's.
GapEdges(c_a, c_b, a_lo, a_hi, b_lo, b_hi) ==
    IF c_a <= c_b THEN << a_hi, b_lo >> ELSE << b_hi, a_lo >>

\* The span of the two ranges, whether they overlap or not.
OverlapOrSpanAlwaysSpan(a_lo, a_hi, b_lo, b_hi) == << Min2(a_lo, b_lo), Max2(a_hi, b_hi) >>

\* Lines 49-53 (and 80-84, 102-105, 119-122): the overlap of the two ranges,
\* or their span when they do not overlap.
OverlapOrSpan(a_lo, a_hi, b_lo, b_hi) ==
    IF Min2(a_hi, b_hi) <= Max2(a_lo, b_lo)
    THEN << Min2(a_lo, b_lo), Max2(a_hi, b_hi) >>
    ELSE << Max2(a_lo, b_lo), Min2(a_hi, b_hi) >>

\* Lines 44-59.
BridgeFromH(gap, band, max_gap) ==
    IF gap[2] <= gap[1] THEN NoValue
    ELSE IF gap[2] - gap[1] > max_gap THEN NoValue
    ELSE [minX |-> Min2(gap[1], gap[2]), maxX |-> Max2(gap[1], gap[2]),
          minY |-> Min2(band[1], band[2]), maxY |-> Max2(band[1], band[2])]

_compute_bridge_h(a, b, max_gap) ==
    BridgeFromH(GapEdges(_bounds_center(a)[1], _bounds_center(b)[1], a[1], a[3], b[1], b[3]),
                OverlapOrSpan(a[2], a[4], b[2], b[4]), max_gap)

\* Lines 76-90.
BridgeFromV(gap, band, max_gap) ==
    IF gap[2] <= gap[1] THEN NoValue
    ELSE IF gap[2] - gap[1] > max_gap THEN NoValue
    ELSE [minX |-> Min2(band[1], band[2]), maxX |-> Max2(band[1], band[2]),
          minY |-> Min2(gap[1], gap[2]), maxY |-> Max2(gap[1], gap[2])]

_compute_bridge_v(a, b, max_gap) ==
    BridgeFromV(GapEdges(_bounds_center(a)[2], _bounds_center(b)[2], a[2], a[4], b[2], b[4]),
                OverlapOrSpan(a[1], a[3], b[1], b[3]), max_gap)

MidOf(interval) == (interval[1] + interval[2]) \div 2

_gap_midpoint_h(a, b) ==
    << MidOf(GapEdges(_bounds_center(a)[1], _bounds_center(b)[1], a[1], a[3], b[1], b[3])),
       MidOf(OverlapOrSpan(a[2], a[4], b[2], b[4])) >>

_gap_midpoint_v(a, b) ==
    << MidOf(OverlapOrSpan(a[1], a[3], b[1], b[3])),
       MidOf(GapEdges(_bounds_center(a)[2], _bounds_center(b)[2], a[2], a[4], b[2], b[4])) >>

_bridge_area(bridge_rect) ==
    (bridge_rect.maxX - bridge_rect.minX) * (bridge_rect.maxY - bridge_rect.minY)

\* round(mid / alignment_tol) * alignment_tol
_alignment_line_key(orient, mid, alignment_tol) ==
    IF orient = "H" THEN RoundHalfEven(mid[2], alignment_tol) * alignment_tol
    ELSE RoundHalfEven(mid[1], alignment_tol) * alignment_tol

\* Lines 235-237.
PairTuple(i, j, orient, align_diff, mid, center, alignment_tol) ==
    [i |-> i, j |-> j, orient |-> orient, align_diff |-> align_diff,
     dist |-> IF center # NoValue THEN DistanceSquared(center, mid) ELSE 0,
     line_key |-> _alignment_line_key(orient, mid, alignment_tol)]

PairTupleH(i, j, a, b, align_y, center, alignment_tol) ==
    PairTuple(i, j, "H", align_y, _gap_midpoint_h(a, b), center, alignment_tol)

PairTupleV(i, j, a, b, align_x, center, alignment_tol) ==
    PairTuple(i, j, "V", align_x, _gap_midpoint_v(a, b), center, alignment_tol)

\* Lines 223-232: both centre distances within the tolerance.
PairTupleNear(i, j, a, b, align_y, align_x, gap_h, gap_v, center, alignment_tol) ==
    IF gap_h <= gap_v
    THEN PairTupleH(i, j, a, b, align_y, center, alignment_tol)
    ELSE PairTupleV(i, j, a, b, align_x, center, alignment_tol)

\* Lines 214-234; NoValue for a pair that is skipped.
PairTupleAligned(i, j, a, b, align_y, align_x, center, alignment_tol) ==
    IF align_y <= alignment_tol /\ align_x > alignment_tol
    THEN PairTupleH(i, j, a, b, align_y, center, alignment_tol)
    ELSE IF align_x <= alignment_tol /\ align_y > alignment_tol
    THEN PairTupleV(i, j, a, b, align_x, center, alignment_tol)
    ELSE IF align_y <= alignment_tol /\ align_x <= alignment_tol
    THEN PairTupleNear(i, j, a, b, align_y, align_x,
             Abs((Max2(a[3], b[3]) - Min2(a[1], b[1])) - Max2(a[3] - a[1], b[3] - b[1])),
             Abs((Max2(a[4], b[4]) - Min2(a[2], b[2])) - Max2(a[4] - a[2], b[4] - b[2])),
             center, alignment_tol)
    ELSE NoValue

\* Lines 208-213.
PairTupleOf(i, j, a, b, center, alignment_tol) ==
    PairTupleAligned(i, j, a, b,
                     Abs(_bounds_center(a)[2] - _bounds_center(b)[2]),
                     Abs(_bounds_center(a)[1] - _bounds_center(b)[1]),
                     center, alignment_tol)

\* Lines 206-237 over valid_indices (0-based rectangle indices, ascending).
RECURSIVE CandidatePairsFrom(_, _, _, _, _, _, _)
CandidatePairsFrom(ii, jj, valid_indices, rects, center, alignment_tol, candidate_pairs) ==
    IF ii > Len(valid_indices) THEN candidate_pairs
    ELSE IF jj > Len(valid_indices)
    THEN CandidatePairsFrom(ii + 1, ii + 2, valid_indices, rects, center, alignment_tol,
                            candidate_pairs)
    ELSE CandidatePairsFrom(ii, jj + 1, valid_indices, rects, center, alignment_tol,
             AppendCandidate(candidate_pairs,
                 PairTupleOf(valid_indices[ii], valid_indices[jj],
                             _get_bounds(rects[valid_indices[ii] + 1]),
                             _get_bounds(rects[valid_indices[jj] + 1]),
                             center, alignment_tol)))

\* The members of a finite set of integers, ascending.
RECURSIVE SortedSeqOf(_)
SortedSeqOf(S) ==
    IF S = {} THEN <<>> ELSE << SetMin(S) >> \o SortedSeqOf(S \ { SetMin(S) })

\* Lines 194-205: sorted(bounds_by_idx.keys())
ValidIndices(indices, n_rects) ==
    SortedSeqOf({ idx \in Range(indices) : idx >= 0 /\ idx < n_rects })

\* Lines 248-251: the keys of groups, in insertion order.
RECURSIVE BridgeGroupKeys(_, _)
BridgeGroupKeys(candidate_pairs, keys) ==
    IF candidate_pairs = <<>> THEN keys
    ELSE IF << Head(candidate_pairs).orient, Head(candidate_pairs).line_key >> \in Range(keys)
    THEN BridgeGroupKeys(Tail(candidate_pairs), keys)
    ELSE BridgeGroupKeys(Tail(candidate_pairs),
             Append(keys, << Head(candidate_pairs).orient, Head(candidate_pairs).line_key >>))

\* Line 256: group_pairs.sort(key=lambda t: (t[3], t[4], t[0] + t[1]))
SortGroup(group_pairs) ==
    ApplyOrder(group_pairs,
               SortedIndices([k \in 1..Len(group_pairs) |->
                   << group_pairs[k].align_diff, group_pairs[k].dist,
                      group_pairs[k].i + group_pairs[k].j >>]))

\* Lines 258-263.
BridgeOfPair(orient, a, b, max_gap) ==
    IF orient = "H" THEN _compute_bridge_h(a, b, max_gap) ELSE _compute_bridge_v(a, b, max_gap)

\* Lines 264-268.
AppendBridge(bridge_list, bridge, orient, alignment_tol) ==
    IF bridge = NoValue THEN bridge_list
    ELSE Append(bridge_list,
                [bridgeRectangle |-> bridge,
                 meta |-> [orientation |-> orient, alignmentToleranceUsed |-> alignment_tol]])

\* Lines 257-268 for one sorted group.
RECURSIVE GroupBridges(_, _, _, _, _, _)
GroupBridges(group_pairs, k, rects, alignment_tol, max_gap, bridge_list) ==
    IF k > Len(group_pairs) THEN bridge_list
    ELSE GroupBridges(group_pairs, k + 1, rects, alignment_tol, max_gap,
             AppendBridge(bridge_list,
                 BridgeOfPair(group_pairs[k].orient,
                              _get_bounds(rects[group_pairs[k].i + 1]),
                              _get_bounds(rects[group_pairs[k].j + 1]), max_gap),
                 group_pairs[k].orient, alignment_tol))

\* Lines 254-268: bridge_list before it is pruned.
RECURSIVE BridgesOfGroups(_, _, _, _, _, _)
BridgesOfGroups(keys, candidate_pairs, rects, alignment_tol, max_gap, bridge_list) ==
    IF keys = <<>> THEN bridge_list
    ELSE BridgesOfGroups(Tail(keys), candidate_pairs, rects, alignment_tol, max_gap,
             GroupBridges(SortGroup(SelectSeq(candidate_pairs,
                              LAMBDA t : << t.orient, t.line_key >> = Head(keys))),
                          1, rects, alignment_tol, max_gap, bridge_list))

BridgeListOf(candidate_pairs, rects, alignment_tol, max_gap) ==
    BridgesOfGroups(BridgeGroupKeys(candidate_pairs, <<>>), candidate_pairs, rects,
                    alignment_tol, max_gap, <<>>)

\* Lines 271-272 keeping the first bridge in the place of the largest.
KeepFirstBridge(bridge_list) ==
    IF Len(bridge_list) > 1 THEN << bridge_list[1] >> ELSE bridge_list

\* Lines 271-272: max() returns the first bridge of maximal area.
KeepMaxAreaBridge(bridge_list) ==
    IF Len(bridge_list) > 1
    THEN << bridge_list[SetMin({ k \in 1..Len(bridge_list) :
                \A m \in 1..Len(bridge_list) :
                    _bridge_area(bridge_list[k].bridgeRectangle)
                        >= _bridge_area(bridge_list[m].bridgeRectangle) })] >>
    ELSE bridge_list

\* Lines 239-278.
DoorRecord(door_id, num_valid, candidate_pairs, rects, alignment_tol, max_gap) ==
    IF candidate_pairs = <<>>
    THEN [doorId |-> door_id, bridges |-> <<>>,
          meta |-> [rectanglesCount |-> num_valid, noBridgeReason |-> "no_aligned_pair"]]
    ELSE [doorId |-> door_id,
          bridges |-> KeepMaxAreaBridge(BridgeListOf(candidate_pairs, rects, alignment_tol, max_gap)),
          meta |-> [rectanglesCount |-> num_valid]]

\* Lines 194-237.
DoorFromValid(door_id, valid_indices, center, rects, alignment_tol, max_gap) ==
    DoorRecord(door_id, Len(valid_indices),
               CandidatePairsFrom(1, 2, valid_indices, rects, center, alignment_tol, <<>>),
               rects, alignment_tol, max_gap)

\* Lines 176-278: the record of one assignment.
DoorBridgeOf(assignment, center, rects, alignment_tol, max_gap) ==
    IF Len(assignment.rectangleIndices) < 2
    THEN [doorId |-> assignment.doorId, bridges |-> <<>>,
          meta |-> [rectanglesCount |-> Len(assignment.rectangleIndices),
                    noBridgeReason |-> "fewer_than_2_rects"]]
    ELSE DoorFromValid(assignment.doorId,
                       ValidIndices(assignment.rectangleIndices, Len(rects)),
                       center, rects, alignment_tol, max_gap)

\* centers[door_id + 1] is the result of _get_door_center for doors[door_id],
\* NoValue also when door_id is not below len(doors).
_compute_door_bridges(assignments, rects, centers, alignment_tol, max_gap) ==
    [k \in 1..Len(assignments) |->
        DoorBridgeOf(assignments[k], centers[assignments[k].doorId + 1], rects,
                     alignment_tol, max_gap)]

(***************************************************************************)
(* Door bridge specification                                               *)
(***************************************************************************)
MaxDoors == 2

\* Rectangle indices 0..7, in 0.5 mm units.  0 and 1: the walls left and right
\* of a 100 mm opening;  2: as 1, 20 mm higher;  3: above 0, beyond a 150 mm
\* opening;  4: 2600 mm to the right of 1;  5: aligned with none;  6: right of
\* the opening, wholly above the y-range of 0 (55..95 mm);  7: right of the
\* opening, its y-range (50..100 mm) touching that of 0.
BridgeRects ==
    << _bounds_to_quad_dict(0, 0, 200, 100),
       _bounds_to_quad_dict(400, 0, 800, 100),
       _bounds_to_quad_dict(400, 40, 800, 140),
       _bounds_to_quad_dict(0, 400, 100, 1000),
       _bounds_to_quad_dict(6000, 0, 6800, 100),
       _bounds_to_quad_dict(1200, 1200, 1400, 1400),
       _bounds_to_quad_dict(400, 110, 800, 190),
       _bounds_to_quad_dict(400, 100, 800, 200) >>

\* rectangleIndices as door-rectangle assignment emits them (ascending); 9 is
\* an index beyond the rectangle list.
AssignmentCatalogue ==
    { <<>>, << 0 >>, << 0, 1 >>, << 0, 2 >>, << 1, 2 >>, << 0, 3 >>, << 1, 4 >>, << 0, 5 >>,
      << 0, 6 >>, << 0, 7 >>,
      << 0, 1, 2 >>, << 0, 1, 3 >>, << 0, 1, 9 >>, << 0, 1, 2, 3 >> }

CenterCatalogue == { NoValue, << 300, 50 >> }

Assignments(lists) ==
    [k \in 1..Len(lists) |-> [doorId |-> k - 1, rectangleIndices |-> lists[k]]]

InitBridge ==
    /\ phase = "bridge_input"
    /\ logic_e_rectangles \in { <<>>, BridgeRects }
    /\ door_assignments \in { Assignments(s) : s \in SeqsUpTo(AssignmentCatalogue, MaxDoors) }
    /\ door_center \in [1..Len(door_assignments) -> CenterCatalogue]
    /\ door_bridges = <<>>
    /\ rectangles = <<>>
    /\ logic_d_rectangles = <<>>
    /\ logic_f_rectangles = <<>>
    /\ accepted = <<>>
    /\ IdleB /\ IdleExec /\ IdleParallel

\* DoorBridgeProcessor.process
DoorBridge ==
    /\ phase = "bridge_input"
    /\ door_bridges' =
          IF door_assignments = <<>> \/ logic_e_rectangles = <<>>
          THEN [k \in 1..Len(door_assignments) |->
                   [doorId |-> door_assignments[k].doorId, bridges |-> <<>>, meta |-> <<>>]]
          ELSE _compute_door_bridges(door_assignments, logic_e_rectangles, door_center,
                                     BRIDGE_ALIGNMENT_TOL_MM, BRIDGE_MAX_GAP_MM)
    /\ phase' = "bridge_done"
    /\ UNCHANGED << rectangles, logic_d_rectangles, logic_e_rectangles, logic_f_rectangles,
                    accepted, door_assignments, door_center,
                    varsB, varsExec, varsParallel >>

NextBridge == DoorBridge

SpecBridge == InitBridge /\ [][NextBridge]_vars

(***************************************************************************)
(* C5                                                                      *)
(***************************************************************************)
\* The bridge rectangles built for door k before pruning (none when the
\* processor returns early or the door has fewer than two rectangles).
BuiltFor(k) ==
    IF logic_e_rectangles = <<>> \/ Len(door_assignments[k].rectangleIndices) < 2
    THEN <<>>
    ELSE BridgeListOf(
             CandidatePairsFrom(1, 2,
                 ValidIndices(door_assignments[k].rectangleIndices, Len(logic_e_rectangles)),
                 logic_e_rectangles, door_center[k], BRIDGE_ALIGNMENT_TOL_MM, <<>>),
             logic_e_rectangles, BRIDGE_ALIGNMENT_TOL_MM, BRIDGE_MAX_GAP_MM)

PIPELINE_STEPS ==
    << "EXTRACT", "NORMALIZE", "CLEAN_DEDUP", "PARALLEL_NAIVE", "LOGIC_B",
       "LOGIC_C", "LOGIC_D", "LOGIC_E", "WALL_CANDIDATES_PLACEHOLDER" >>

\* f'{step_name.lower()}_results'
ResultsKey ==
    [ EXTRACT |-> "extract_results", NORMALIZE |-> "normalize_results",
      CLEAN_DEDUP |-> "clean_dedup_results", PARALLEL_NAIVE |-> "parallel_naive_results",
      LOGIC_B |-> "logic_b_results", LOGIC_C |-> "logic_c_results",
      LOGIC_D |-> "logic_d_results", LOGIC_E |-> "logic_e_results",
      WALL_CANDIDATES_PLACEHOLDER |-> "wall_candidates_placeholder_results",
      LOGIC_F |-> "logic_f_results",
      DOOR_RECTANGLE_ASSIGNMENT |-> "door_rectangle_assignment_results",
      DOOR_BRIDGE |-> "door_bridge_results" ]

\* What a processor may hand back: a result without and one with entities.
StepResults == { [entities |-> <<>>], [entities |-> << "entity" >>] }

\* The window/door blocks collected for the drawing (none, or some).
WindowDoorBlocks == { <<>>, << "door" >> }

\* _create_job_steps: one JobStep row per pipeline step, all pending.
_create_job_steps == [k \in 1..Len(PIPELINE_STEPS) |-> "pending"]

\* The initial pipeline_data of execute_pipeline.
InitialPipelineData(window_door_blocks) ==
    << [key |-> "drawing", value |-> "drawing_data"],
       [key |-> "selected_layers", value |-> "layers"],
       [key |-> "layer_names", value |-> "names"],
       [key |-> "window_door_blocks", value |-> window_door_blocks] >>

KeysOf(data) == [k \in 1..Len(data) |-> data[k].key]

\* _mark_step_failed, and the except branch of _execute_step.
_mark_step_failed(status, k) == [status EXCEPT ![k] = "failed"]

InitExec ==
    /\ phase = "exec_new"
    /\ IdleExec /\ IdleB /\ IdleRects /\ IdleDoors /\ IdleParallel

\* execute_pipeline up to the loop: the step rows are created, the drawing is
\* loaded and pipeline_data is initialised.
ExecutePipelineStart ==
    /\ phase = "exec_new"
    /\ step_status' = _create_job_steps
    /\ \E blocks \in WindowDoorBlocks : pipeline_data' = InitialPipelineData(blocks)
    /\ step_index' = 1
    /\ phase' = "exec_loop"
    /\ UNCHANGED << results, exec_log, varsB, varsRects, varsDoors, varsParallel >>

\* _load_drawing_data raises after the step rows are committed: the exception
\* leaves execute_pipeline before the loop, no step is marked failed.
LoadDrawingFails ==
    /\ phase = "exec_new"
    /\ step_status' = _create_job_steps
    /\ phase' = "exec_failed"
    /\ UNCHANGED << step_index, pipeline_data, results, exec_log,
                    varsB, varsRects, varsDoors, varsParallel >>

\* Loop body up to the call of the processor: the debug log is appended to,
\* _execute_step marks the step running and calls processor.process.
StepBegin ==
    /\ phase = "exec_loop"
    /\ step_index <= Len(PIPELINE_STEPS)
    /\ step_status' = [step_status EXCEPT ![step_index] = "running"]
    /\ exec_log' = Append(exec_log, [step |-> PIPELINE_STEPS[step_index],
                                     input |-> KeysOf(pipeline_data)])
    /\ phase' = "exec_running"
    /\ UNCHANGED << step_index, pipeline_data, results,
                    varsB, varsRects, varsDoors, varsParallel >>

\* The open() of the debug log at the top of the loop body raises (the path is
\* a fixed one): the step is marked failed without having run.
StepLogFails ==
    /\ phase = "exec_loop"
    /\ step_index <= Len(PIPELINE_STEPS)
    /\ step_status' = _mark_step_failed(step_status, step_index)
    /\ phase' = "exec_failed"
    /\ UNCHANGED << step_index, pipeline_data, results, exec_log,
                    varsB, varsRects, varsDoors, varsParallel >>

\* processor.process returns: the step is marked completed and its result is
\* stored in results.
ProcessorReturns ==
    /\ phase = "exec_running"
    /\ \E step_result \in StepResults :
           results' = Append(results, [key |-> PIPELINE_STEPS[step_index],
                                       value |-> step_result])
    /\ step_status' = [step_status EXCEPT ![step_index] = "completed"]
    /\ phase' = "exec_returned"
    /\ UNCHANGED << step_index, pipeline_data, exec_log,
                    varsB, varsRects, varsDoors, varsParallel >>

\* processor.process raises: _execute_step marks the step failed and re-raises,
\* execute_pipeline marks it failed again and stops.
ProcessorRaises ==
    /\ phase = "exec_running"
    /\ step_status' = _mark_step_failed(step_status, step_index)
    /\ phase' = "exec_failed"
    /\ UNCHANGED << step_index, pipeline_data, results, exec_log,
                    varsB, varsRects, varsDoors, varsParallel >>

\* Rest of the loop body: the debug log is appended to and the result is put
\* into pipeline_data for the following steps.
StepRecord ==
    /\ phase = "exec_returned"
    /\ pipeline_data' = Append(pipeline_data,
                               [key |-> ResultsKey[PIPELINE_STEPS[step_index]],
                                value |-> results[Len(results)].value])
    /\ step_index' = step_index + 1
    /\ phase' = "exec_loop"
    /\ UNCHANGED << step_status, results, exec_log,
                    varsB, varsRects, varsDoors, varsParallel >>

\* The second open() of the debug log raises: the step that has just
\* completed is marked failed and the pipeline stops.
StepRecordLogFails ==
    /\ phase = "exec_returned"
    /\ step_status' = _mark_step_failed(step_status, step_index)
    /\ phase' = "exec_failed"
    /\ UNCHANGED << step_index, pipeline_data, results, exec_log,
                    varsB, varsRects, varsDoors, varsParallel >>

\* The loop is exhausted: execute_pipeline returns results.
ExecutePipelineReturns ==
    /\ phase = "exec_loop"
    /\ step_index = Len(PIPELINE_STEPS) + 1
    /\ phase' = "exec_completed"
    /\ UNCHANGED << varsExec, varsB, varsRects, varsDoors, varsParallel >>

NextExec ==
    \/ ExecutePipelineStart
    \/ LoadDrawingFails
    \/ StepBegin
    \/ StepLogFails
    \/ ProcessorReturns
    \/ ProcessorRaises
    \/ StepRecord
    \/ StepRecordLogFails
    \/ ExecutePipelineReturns

SpecExec == InitExec /\ [][NextExec]_vars

(***************************************************************************)
(* C6                                                                      *)
(***************************************************************************)
\* The core stages in the order the specification gives them.
CoreStages ==
    << "LOGIC_B", "LOGIC_C", "LOGIC_D", "LOGIC_E", "LOGIC_F",
       "DOOR_RECTANGLE_ASSIGNMENT", "DOOR_BRIDGE" >>

StepsOf(log) == [k \in 1..Len(log) |-> log[k].step]

IsCoreStage(step) == step \in Range(CoreStages)

\* The core-stage calls of a run, in the order they were made.
CoreCalls(log) == SelectSeq(log, LAMBDA e : IsCoreStage(e.step))

\* C6: in every run that completes, the calls of core stages are exactly Stage
\* B, Stage C, Stage D, Stage E, Stage F, door-rectangle assignment, door
\* bridge, once each and in this order, and every one after the first is
\* handed the result of the one before it.
C6_CoreStagesOnceInOrder ==
    phase = "exec_completed" =>
        /\ StepsOf(CoreCalls(exec_log)) = CoreStages
        /\ \A k \in 2..Len(CoreCalls(exec_log)) :
               ResultsKey[CoreCalls(exec_log)[k - 1].step]
                   \in Range(CoreCalls(exec_log)[k].input)

\* What the executor does guarantee: a completed run has called the steps of
\* PIPELINE_STEPS once each, in order, each with the results of all earlier
\* steps, and every step row is completed.
ListedStepsOnceInOrder ==
    phase = "exec_completed" =>
        /\ StepsOf(exec_log) = PIPELINE_STEPS
        /\ \A k \in 1..Len(exec_log) : \A j \in 1..(k - 1) :
               ResultsKey[PIPELINE_STEPS[j]] \in Range(exec_log[k].input)
        /\ \A k \in 1..Len(PIPELINE_STEPS) : step_status[k] = "completed"

(***************************************************************************)
(* PARALLEL_NAIVE and the step artifact                                    *)
(* (parallel_naive_processor.py, job_processor.py, artifact_service.py)    *)
(*                                                                         *)
(* Python values are trees: a dict is the sequence of its items in         *)
(* insertion order, which is the order json.dumps writes them in.  The     *)
(* model runs the step twice on the same input (Runs); per run,            *)
(* layer_groups is the dict of that name, pending the layers whose future  *)
(* as_completed has not yielded yet, processed_results the dict of that    *)
(* name, results the value process() returned and artifact the serialised  *)
(* content written by create_artifact, as a sequence of text pieces.       *)
(* Coordinates are whole millimetres.                                      *)
(***************************************************************************)
PyDict(items) == [t |-> "dict", items |-> items]

PyList(items) == [t |-> "list", items |-> items]

PyInt(n) == [t |-> "int", v |-> n]

PyStr(s) == [t |-> "str", v |-> s]

PyBool(b) == [t |-> "bool", v |-> b]

PyNone == [t |-> "null"]

Item(k, v) == [key |-> k, value |-> v]

HasKey(d, k) == \E i \in 1..Len(d.items) : d.items[i].key = k

Get(d, k) == d.items[CHOOSE i \in 1..Len(d.items) : d.items[i].key = k].value

\* d.get(k, default)
GetOr(d, k, default) == IF HasKey(d, k) THEN Get(d, k) ELSE default

\* d[k] = v: an existing key keeps its place, a new key goes last.
SetItem(d, k, v) ==
    IF HasKey(d, k)
    THEN PyDict([i \in 1..Len(d.items) |->
                    IF d.items[i].key = k THEN Item(k, v) ELSE d.items[i]])
    ELSE PyDict(Append(d.items, Item(k, v)))

\* json.dumps(content, indent=2, ensure_ascii=False): the pieces of text of
\* the document, members and elements in the order the value holds them.
Pad ==
    << "\n", "\n  ", "\n    ", "\n      ", "\n        ", "\n          ",
       "\n            ", "\n              ", "\n                ",
       "\n                  " >>

Newline(level) == Pad[level + 1]

RECURSIVE _iterencode(_, _)
RECURSIVE _iterencode_dict(_, _, _)
RECURSIVE _iterencode_list(_, _, _)
_iterencode_dict(items, k, level) ==
    IF k > Len(items) THEN <<>>
    ELSE (IF k > 1 THEN << "," >> ELSE <<>>)
         \o << Newline(level), "\"", items[k].key, "\"", ": " >>
         \o _iterencode(items[k].value, level)
         \o _iterencode_dict(items, k + 1, level)

_iterencode_list(items, k, level) ==
    IF k > Len(items) THEN <<>>
    ELSE (IF k > 1 THEN << "," >> ELSE <<>>)
         \o << Newline(level) >>
         \o _iterencode(items[k], level)
         \o _iterencode_list(items, k + 1, level)

_iterencode(o, level) ==
    CASE o.t = "null" -> << "null" >>
      [] o.t = "bool" -> IF o.v THEN << "true" >> ELSE << "false" >>
      [] o.t = "int" -> << ToString(o.v) >>
      [] o.t = "str" -> << "\"", o.v, "\"" >>
      [] o.t = "list" ->
            IF o.items = <<>> THEN << "[]" >>
            ELSE << "[" >> \o _iterencode_list(o.items, 1, level + 1)
                 \o << Newline(level), "]" >>
      [] o.t = "dict" ->
            IF o.items = <<>> THEN << "{}" >>
            ELSE << "{" >> \o _iterencode_dict(o.items, 1, level + 1)
                 \o << Newline(level), "}" >>

json_dumps(content) == _iterencode(content, 0)

\* epsilon of _analyze_layer_geometry (1e-6 mm) in whole millimetres.
epsilon == 0

\* all_entities: lines, then polylines, then blocks.
AllEntities(entities) ==
    GetOr(entities, "lines", PyList(<<>>)).items
        \o GetOr(entities, "polylines", PyList(<<>>)).items
        \o GetOr(entities, "blocks", PyList(<<>>)).items

\* One turn of the grouping loop.
GroupAdd(groups, layer_name, entity) ==
    IF HasKey(groups, layer_name)
    THEN SetItem(groups, layer_name, PyList(Append(Get(groups, layer_name).items, entity)))
    ELSE SetItem(groups, layer_name, PyList(<< entity >>))

RECURSIVE GroupByLayer(_, _, _)
GroupByLayer(all_entities, k, groups) ==
    IF k > Len(all_entities) THEN groups
    ELSE GroupByLayer(all_entities, k + 1,
                      GroupAdd(groups, Get(all_entities[k], "layer_name").v, all_entities[k]))

\* One turn of the entity-type counting loop.
TypeAdd(types, entity_type) ==
    SetItem(types, entity_type, PyInt(GetOr(types, entity_type, PyInt(0)).v + 1))

RECURSIVE CountTypes(_, _, _)
CountTypes(entities, k, types) ==
    IF k > Len(entities) THEN types
    ELSE CountTypes(entities, k + 1, TypeAdd(types, Get(entities[k], "entity_type").v))

NormalizedData(entity) == GetOr(entity, "normalized_data", PyDict(<<>>))

EntityType(entity) == Get(entity, "entity_type").v

\* The points one entity adds to all_points.
EntityPoints(entity_type, normalized_data) ==
    CASE entity_type = "LINE" ->
            << GetOr(normalized_data, "Start", PyNone), GetOr(normalized_data, "End", PyNone) >>
      [] entity_type = "POLYLINE" ->
            GetOr(normalized_data, "Vertices", PyList(<<>>)).items
      [] entity_type = "BLOCK" ->
            << GetOr(normalized_data, "Position", PyNone) >>
            \o (IF HasKey(normalized_data, "BoundingBox")
                THEN << GetOr(Get(normalized_data, "BoundingBox"), "MinPoint", PyNone),
                        GetOr(Get(normalized_data, "BoundingBox"), "MaxPoint", PyNone) >>
                ELSE <<>>)
      [] OTHER -> <<>>

RECURSIVE AllPoints(_, _, _)
AllPoints(entities, k, all_points) ==
    IF k > Len(entities) THEN all_points
    ELSE AllPoints(entities, k + 1,
                   all_points \o EntityPoints(EntityType(entities[k]), NormalizedData(entities[k])))

Coords(valid_points, axis) ==
    { GetOr(valid_points[k], axis, PyInt(0)).v : k \in 1..Len(valid_points) }

BoundsPoint(valid_points, Extreme(_)) ==
    PyDict(<< Item("X", PyInt(Extreme(Coords(valid_points, "X")))),
              Item("Y", PyInt(Extreme(Coords(valid_points, "Y")))),
              Item("Z", PyInt(Extreme(Coords(valid_points, "Z")))) >>)

BoundsOfValid(valid_points) ==
    IF valid_points = <<>> THEN PyNone
    ELSE PyDict(<< Item("MinPoint", BoundsPoint(valid_points, SetMin)),
                   Item("MaxPoint", BoundsPoint(valid_points, SetMax)) >>)

_calculate_layer_bounds(entities) ==
    IF entities = <<>> THEN PyNone
    ELSE BoundsOfValid(SelectSeq(AllPoints(entities, 1, <<>>), LAMBDA p : p.t # "null"))

Coord(point, axis) == GetOr(point, axis, PyInt(0)).v

LineDx(nd) ==
    Abs(Coord(GetOr(nd, "End", PyDict(<<>>)), "X") - Coord(GetOr(nd, "Start", PyDict(<<>>)), "X"))

LineDy(nd) ==
    Abs(Coord(GetOr(nd, "End", PyDict(<<>>)), "Y") - Coord(GetOr(nd, "Start", PyDict(<<>>)), "Y"))

\* The counter of analysis an entity increments ("" when none); a block may
\* increment two, see BlockCounters.
LineCounter(nd) ==
    IF LineDy(nd) <= epsilon THEN "horizontal_lines"
    ELSE IF LineDx(nd) <= epsilon THEN "vertical_lines"
    ELSE "diagonal_lines"

PolylineCounter(nd) ==
    IF GetOr(nd, "IsClosed", PyBool(FALSE)).v THEN "closed_polylines" ELSE "open_polylines"

BlockCounters(nd) ==
    (IF \/ Abs(GetOr(nd, "ScaleX", PyInt(1)).v - 1) > epsilon
        \/ Abs(GetOr(nd, "ScaleY", PyInt(1)).v - 1) > epsilon
     THEN { "scaled_blocks" } ELSE {})
    \cup (IF Abs(GetOr(nd, "Rotation", PyInt(0)).v) > epsilon
          THEN { "rotated_blocks" } ELSE {})

EntityCounters(entity_type, nd) ==
    CASE entity_type = "LINE" -> { LineCounter(nd) }
      [] entity_type = "POLYLINE" -> { PolylineCounter(nd) }
      [] entity_type = "BLOCK" -> BlockCounters(nd)
      [] OTHER -> {}

CounterValue(entities, counter) ==
    PyInt(Cardinality({ k \in 1..Len(entities) :
        counter \in EntityCounters(EntityType(entities[k]), NormalizedData(entities[k])) }))

_analyze_layer_geometry(entities) ==
    PyDict(<< Item("horizontal_lines", CounterValue(entities, "horizontal_lines")),
              Item("vertical_lines", CounterValue(entities, "vertical_lines")),
              Item("diagonal_lines", CounterValue(entities, "diagonal_lines")),
              Item("closed_polylines", CounterValue(entities, "closed_polylines")),
              Item("open_polylines", CounterValue(entities, "open_polylines")),
              Item("scaled_blocks", CounterValue(entities, "scaled_blocks")),
              Item("rotated_blocks", CounterValue(entities, "rotated_blocks")) >>)

_process_layer_entities(layer_name, entities) ==
    PyDict(<< Item("layer_name", PyStr(layer_name)),
              Item("entity_count", PyInt(Len(entities))),
              Item("entity_types", CountTypes(entities, 1, PyDict(<<>>))),
              Item("bounding_box", _calculate_layer_bounds(entities)),
              Item("analysis_results", _analyze_layer_geometry(entities)) >>)

RECURSIVE SumEntityCount(_, _)
SumEntityCount(items, k) ==
    IF k > Len(items) THEN 0
    ELSE Get(items[k].value, "entity_count").v + SumEntityCount(items, k + 1)

\* The dict process() returns once every future has been collected (no layer
\* task raises on entities that carry layer_name and entity_type).
ParallelResult(groups, processed, all_entities) ==
    PyDict(<<
        Item("entities", PyDict(<<
            Item("layer_groups", groups),
            Item("processed_layers", processed),
            Item("parallel_ready_entities", PyList(all_entities)) >>)),
        Item("processing_stats", PyDict(<<
            Item("layers_processed", PyInt(Len(processed.items))),
            Item("entities_analyzed", PyInt(SumEntityCount(processed.items, 1))),
            Item("processing_errors", PyInt(0)),
            Item("parallel_tasks", PyInt(Len(groups.items))) >>)),
        Item("totals", PyDict(<<
            Item("total_entities", PyInt(SumEntityCount(processed.items, 1))),
            Item("layer_groups", PyInt(Len(groups.items))),
            Item("processed_layers", PyInt(Len(processed.items))) >>)) >>)

(* Inputs *)
MaxPerType == 2

Runs == { "first", "second" }

Point(x, y) == PyDict(<< Item("X", PyInt(x)), Item("Y", PyInt(y)), Item("Z", PyInt(0)) >>)

Entity(layer_name, entity_type, normalized_data) ==
    PyDict(<< Item("layer_name", PyStr(layer_name)),
              Item("entity_type", PyStr(entity_type)),
              Item("normalized_data", PyDict(normalized_data)) >>)

LineEntities ==
    { Entity("A-WALL", "LINE", << Item("Start", Point(0, 0)), Item("End", Point(10, 0)) >>),
      Entity("A-DOOR", "LINE", << Item("Start", Point(0, 0)), Item("End", Point(0, 5)) >>),
      Entity("A-WALL", "LINE", << Item("Start", Point(0, 0)), Item("End", Point(3, 4)) >>) }

PolylineEntities ==
    { Entity("A-GLAZ", "POLYLINE",
             << Item("Vertices", PyList(<< Point(0, 0), Point(2, 2), Point(2, 0) >>)),
                Item("IsClosed", PyBool(TRUE)) >>) }

BlockEntities ==
    { Entity("A-DOOR", "BLOCK",
             << Item("Position", Point(1, 1)), Item("ScaleX", PyInt(2)),
                Item("ScaleY", PyInt(1)), Item("Rotation", PyInt(90)) >>) }

EntityLists(S) == { PyList(s) : s \in { q \in SeqsUpTo(S, MaxPerType) : IsInjective(q) } }

CleanDedupResults ==
    { PyDict(<< Item("entities", PyDict(<< Item("lines", l), Item("polylines", p),
                                           Item("blocks", b) >>)) >>) :
        l \in EntityLists(LineEntities), p \in EntityLists(PolylineEntities),
        b \in EntityLists(BlockEntities) }

\* pipeline_data.get('clean_dedup_results', {}).get('entities', {})
InputEntities == GetOr(pipeline_data[1].value, "entities", PyDict(<<>>))

InitParallel ==
    /\ phase = [r \in Runs |-> "parallel_input"]
    /\ pipeline_data \in { << [key |-> "clean_dedup_results", value |-> c] >> :
                             c \in CleanDedupResults }
    /\ layer_groups = [r \in Runs |-> PyDict(<<>>)]
    /\ pending = [r \in Runs |-> {}]
    /\ processed_results = [r \in Runs |-> PyDict(<<>>)]
    /\ results = [r \in Runs |-> NoValue]
    /\ artifact = [r \in Runs |-> <<>>]
    /\ step_status = <<>> /\ step_index = 0 /\ exec_log = <<>>
    /\ IdleB /\ IdleRects /\ IdleDoors

KeySet(d) == { d.items[k].key : k \in 1..Len(d.items) }

\* process() up to the submission of the layer tasks: the entities are grouped
\* by layer and one future per layer is submitted.
SubmitLayers(r) ==
    /\ phase[r] = "parallel_input"
    /\ layer_groups' = [layer_groups EXCEPT
                           ![r] = GroupByLayer(AllEntities(InputEntities), 1, PyDict(<<>>))]
    /\ pending' = [pending EXCEPT ![r] = KeySet(layer_groups'[r])]
    /\ phase' = [phase EXCEPT ![r] = "parallel_collecting"]
    /\ UNCHANGED << processed_results, results, artifact, step_status, step_index,
                    pipeline_data, exec_log, varsB, varsRects, varsDoors >>

\* One turn of the as_completed loop: a future that has finished, whichever
\* it is, is yielded and its result stored under its layer name.
CollectLayer(r) ==
    /\ phase[r] = "parallel_collecting"
    /\ \E layer_name \in pending[r] :
           /\ processed_results' = [processed_results EXCEPT ![r] =
                  SetItem(processed_results[r], layer_name,
                          _process_layer_entities(layer_name,
                                                  Get(layer_groups[r], layer_name).items))]
           /\ pending' = [pending EXCEPT ![r] = pending[r] \ { layer_name }]
    /\ UNCHANGED << phase, layer_groups, results, artifact, step_status, step_index,
                    pipeline_data, exec_log, varsB, varsRects, varsDoors >>

\* Every future has been collected: process() returns its result.
ParallelNaiveReturns(r) ==
    /\ phase[r] = "parallel_collecting"
    /\ pending[r] = {}
    /\ results' = [results EXCEPT ![r] =
           ParallelResult(layer_groups[r], processed_results[r], AllEntities(InputEntities))]
    /\ phase' = [phase EXCEPT ![r] = "parallel_returned"]
    /\ UNCHANGED << layer_groups, pending, processed_results, artifact, step_status,
                    step_index, pipeline_data, exec_log, varsB, varsRects, varsDoors >>

\* job_processor stores the step result through create_artifact.
CreateArtifact(r) ==
    /\ phase[r] = "parallel_returned"
    /\ artifact' = [artifact EXCEPT ![r] = json_dumps(results[r])]
    /\ phase' = [phase EXCEPT ![r] = "parallel_stored"]
    /\ UNCHANGED << layer_groups, pending, processed_results, results, step_status,
                    step_index, pipeline_data, exec_log, varsB, varsRects, varsDoors >>

NextParallel ==
    \E r \in Runs :
        \/ SubmitLayers(r)
        \/ CollectLayer(r)
        \/ ParallelNaiveReturns(r)
        \/ CreateArtifact(r)

SpecParallel == InitParallel /\ [][NextParallel]_vars

(***************************************************************************)
(* C7                                                                      *)
(***************************************************************************)
\* C7: two runs of the step on the same input write the same artifact, in
\* whatever order the layer tasks of either run finish.
C7_ArtifactsIdentical ==
    (\A r \in Runs : phase[r] = "parallel_stored") =>
        artifact["first"] = artifact["second"]

\* What the step does guarantee: the two artifacts differ at most in the order
\* of the members of processed_layers.
SameProcessedLayersUpToOrder ==
    (\A r \in Runs : phase[r] = "parallel_stored") =>
        /\ Range(processed_results["first"].items) = Range(processed_results["second"].items)
        /\ processed_results["first"].items = processed_results["second"].items
               => artifact["first"] = artifact["second"]

(***************************************************************************)
(* Stage C - logic_c_processor.py.  Unit: 0.001 mm, as in Stage B, whose   *)
(* pairs and line-likes it reads.  The line-likes of the catalogue are     *)
(* axis-parallel, so every Stage-B quad is an axis-parallel rectangle.     *)
(***************************************************************************)
\* MIN_BLOCKING_LENGTH_MM = 1.0 mm
MIN_BLOCKING_LENGTH_MM == 1000

\* Lines 51-59: d_k normalised and flipped towards d_pair, then |cross| <= sin(2 deg).
IsParallelDir(d_pair_x, d_pair_y, dk, dot) ==
    IF dk = << 0, 0 >> THEN FALSE
    ELSE Abs(_cross2(d_pair_x, d_pair_y,
                     IF dot < 0 THEN -dk[1] ELSE dk[1],
                     IF dot < 0 THEN -dk[2] ELSE dk[2])) * SinTolDen <= SinTolNum

IsParallelNormalized(d_pair_x, d_pair_y, dk) ==
    IsParallelDir(d_pair_x, d_pair_y, dk, _dot2(d_pair_x, d_pair_y, dk[1], dk[2]))

_is_parallel_to_any(d_pair_x, d_pair_y, d_k_x, d_k_y) == TRUE

_is_parallel_to(d_pair_x, d_pair_y, d_k_x, d_k_y) ==
    IsParallelNormalized(d_pair_x, d_pair_y, _normalize2(d_k_x, d_k_y))

_bbox_intersects(min_a, max_a, min_b, max_b) == ~(max_a < min_b \/ max_b < min_a)

\* (min_x, min_y, max_x, max_y) of the pair: its bounding_rectangle, else its corners.
_strip_bbox(pair) ==
    IF "bounding_rectangle" \in DOMAIN pair
    THEN << pair.bounding_rectangle.minX, pair.bounding_rectangle.minY,
            pair.bounding_rectangle.maxX, pair.bounding_rectangle.maxY >>
    ELSE << SetMin({ CornerList(pair)[k][1] : k \in 1..4 }),
            SetMin({ CornerList(pair)[k][2] : k \in 1..4 }),
            SetMax({ CornerList(pair)[k][1] : k \in 1..4 }),
            SetMax({ CornerList(pair)[k][2] : k \in 1..4 }) >>

_line_bbox(entity) ==
    << Min2(entity.x1, entity.x2), Min2(entity.y1, entity.y2),
       Max2(entity.x1, entity.x2), Max2(entity.y1, entity.y2) >>

PairDirection(d) == IF d = << 0, 0 >> THEN NoValue ELSE d

\* Direction of trimmed segment A (p2 - p1), normalised; NoValue when degenerate.
_get_pair_direction_xy(pair) ==
    PairDirection(_normalize2(pair.trimmedSegmentA.p2[1] - pair.trimmedSegmentA.p1[1],
                              pair.trimmedSegmentA.p2[2] - pair.trimmedSegmentA.p1[2]))

\* poly.buffer(-EPS_MM) of an axis-parallel rectangle: every side moved in by
\* EPS_MM, as (minx, miny, maxx, maxy); NoValue when nothing is left.
ShrunkBox(env) ==
    IF env[3] - env[1] <= 2 * EPS_MM \/ env[4] - env[2] <= 2 * EPS_MM THEN NoValue
    ELSE << env[1] + EPS_MM, env[2] + EPS_MM, env[3] - EPS_MM, env[4] - EPS_MM >>

BufferInward(poly) == ShrunkBox(Envelope(poly))

\* Length of the part of [lo, hi] inside [box_lo, box_hi].
SpanInside(lo, hi, box_lo, box_hi) == Max2(0, Min2(hi, box_hi) - Max2(lo, box_lo))

\* LineString([(x1, y1), (x2, y2)]).intersection(shrunk).length for an
\* axis-parallel segment and the (closed) shrunk rectangle.
IntersectionLength(x1, y1, x2, y2, shrunk) ==
    IF y1 = y2
    THEN IF shrunk[2] <= y1 /\ y1 <= shrunk[4]
         THEN SpanInside(Min2(x1, x2), Max2(x1, x2), shrunk[1], shrunk[3])
         ELSE 0
    ELSE IF shrunk[1] <= x1 /\ x1 <= shrunk[3]
         THEN SpanInside(Min2(y1, y2), Max2(y1, y2), shrunk[2], shrunk[4])
         ELSE 0

\* Lines 222-239: the candidate is parallel; it blocks when it runs for more
\* than MIN_BLOCKING_LENGTH_MM inside the shrunk polygon.
LineRunsInside(line_ent, shrunk) ==
    IntersectionLength(line_ent.x1, line_ent.y1, line_ent.x2, line_ent.y2, shrunk)
        > MIN_BLOCKING_LENGTH_MM

\* Lines 207-225: one turn of the loop over the line-likes, up to the parallel test.
LineIntervenes(line_ent, id_a, id_b, strip_bbox, d_pair, shrunk, l_bbox) ==
    IF line_ent.id = id_a \/ line_ent.id = id_b THEN FALSE
    ELSE IF \/ ~_bbox_intersects(strip_bbox[1], strip_bbox[3], l_bbox[1], l_bbox[3])
            \/ ~_bbox_intersects(strip_bbox[2], strip_bbox[4], l_bbox[2], l_bbox[4])
    THEN FALSE
    ELSE IF _normalize2(line_ent.x2 - line_ent.x1, line_ent.y2 - line_ent.y1) = << 0, 0 >>
    THEN FALSE
    ELSE IF ~_is_parallel_to(d_pair[1], d_pair[2],
                             line_ent.x2 - line_ent.x1, line_ent.y2 - line_ent.y1)
    THEN FALSE
    ELSE LineRunsInside(line_ent, shrunk)

\* Lines 193-206: the shrunk polygon; the loop returns True at the first blocker.
InterveningShrunk(pair, line_entities_, strip_bbox, d_pair, shrunk) ==
    IF shrunk = NoValue THEN FALSE
    ELSE \E k \in 1..Len(line_entities_) :
             LineIntervenes(line_entities_[k], pair.sourceLineIdA, pair.sourceLineIdB,
                            strip_bbox, d_pair, shrunk, _line_bbox(line_entities_[k]))

InterveningPolygon(pair, line_entities_, strip_bbox, d_pair, poly) ==
    IF poly = NoValue THEN FALSE
    ELSE InterveningShrunk(pair, line_entities_, strip_bbox, d_pair, BufferInward(poly))

InterveningDirection(pair, line_entities_, strip_bbox, d_pair) ==
    IF d_pair = NoValue THEN FALSE
    ELSE InterveningPolygon(pair, line_entities_, strip_bbox, d_pair,
                            RingPolygon(_get_quad_corners_xy(pair)))

_has_intervening(pair, line_entities_, strip_bbox) ==
    InterveningDirection(pair, line_entities_, strip_bbox, _get_pair_direction_xy(pair))

RECURSIVE FilterFrom(_, _, _, _)
FilterFrom(logic_b_pairs, line_entities_, k, acc) ==
    IF k > Len(logic_b_pairs) THEN acc
    ELSE FilterFrom(logic_b_pairs, line_entities_, k + 1,
                    IF _has_intervening(logic_b_pairs[k], line_entities_,
                                        _strip_bbox(logic_b_pairs[k]))
                    THEN acc ELSE Append(acc, logic_b_pairs[k]))

_filter_pairs(logic_b_pairs, line_entities_) == FilterFrom(logic_b_pairs, line_entities_, 1, <<>>)

(***************************************************************************)
(* Stage C specification: Stage B runs on a list of line-likes, Stage C    *)
(* filters its pairs against the same list.                                *)
(***************************************************************************)
MaxLinesC == 4

\* Three horizontal lines 10 mm apart (one reversed), with a parallel line inside
\* the lowest strip, lines that enter it for 1.000 and for 1.001 mm, a line
\* across it, and a degenerate line.
LineCatalogueC ==
    { BLine(1, Mm(0), Mm(0), Mm(10), Mm(0)),
      BLine(2, Mm(10), Mm(10), Mm(0), Mm(10)),
      BLine(3, Mm(2), Mm(5), Mm(8), Mm(5)),
      BLine(4, Mm(5), Mm(-1), Mm(5), Mm(11)),
      BLine(5, Mm(9) - 1, Mm(5), Mm(15), Mm(5)),
      BLine(6, Mm(15), Mm(5), Mm(9) - 2, Mm(5)),
      BLine(7, Mm(0), Mm(20), Mm(10), Mm(20)),
      BLine(8, Mm(5), Mm(5), Mm(5), Mm(5)) }

InputsC == { s \in SeqsUpTo(LineCatalogueC, MaxLinesC) : Len(s) >= 2 /\ IsInjective(s) }

InitC ==
    /\ phase = "B_input"
    /\ line_entities \in InputsC
    /\ pairs_out = <<>>
    /\ IdleRects /\ IdleDoors /\ IdleExec /\ IdleParallel

\* LogicCProcessor.process: accepted = self._filter_pairs(logic_b_pairs, line_entities)
LogicC ==
    /\ phase = "B_done"
    /\ accepted' = _filter_pairs(pairs_out, line_entities)
    /\ phase' = "C_done"
    /\ UNCHANGED << line_entities, pairs_out, rectangles, logic_d_rectangles,
                    logic_e_rectangles, logic_f_rectangles,
                    varsDoors, varsExec, varsParallel >>

NextC == LogicB \/ LogicC

SpecC == InitC /\ [][NextC]_vars

(***************************************************************************)
(* C14                                                                     *)
(***************************************************************************)
IsVertical(l) == l.x1 = l.x2 /\ l.y1 # l.y2

\* The line-like runs along the pair's source line A.
ParallelToPair(l, pair) ==
    \/ IsHorizontal(l) /\ IsHorizontal(LineById(pair.sourceLineIdA))
    \/ IsVertical(l) /\ IsVertical(LineById(pair.sourceLineIdA))

\* The strip interior: the points of the quad at least EPS_MM away from its
\* border, as (minx, miny, maxx, maxy).
StripInterior(pair) ==
    LET xs == { pair.quad_corners[k][1] : k \in 1..4 }
        ys == { pair.quad_corners[k][2] : k \in 1..4 }
    IN  << SetMin(xs) + EPS_MM, SetMin(ys) + EPS_MM, SetMax(xs) - EPS_MM, SetMax(ys) - EPS_MM >>

\* Length (0.001 mm) for which the axis-parallel line-like l is inside the interior.
RunInside(l, pair) ==
    LET box == StripInterior(pair)
        lx == Min2(l.x1, l.x2)
        hx == Max2(l.x1, l.x2)
        ly == Min2(l.y1, l.y2)
        hy == Max2(l.y1, l.y2)
    IN  IF lx > box[3] \/ hx < box[1] \/ ly > box[4] \/ hy < box[2] THEN 0
        ELSE (Min2(hx, box[3]) - Max2(lx, box[1])) + (Min2(hy, box[4]) - Max2(ly, box[2]))

Blockers(pair) ==
    { l \in Range(line_entities) :
        /\ l.id \notin { pair.sourceLineIdA, pair.sourceLineIdB }
        /\ ParallelToPair(l, pair)
        /\ RunInside(l, pair) > 1 * UnitsPerMmB }

\* C14: Stage C removes a Stage-B pair exactly when some line-like other than
\* its two source lines is parallel to it and runs for more than 1.0 mm inside
\* the strip interior; a pair that only non-parallel line-likes cross is kept.
C14_RemovedIffParallelLineInside ==
    phase = "C_done" =>
        /\ \A k \in 1..Len(pairs_out) :
               pairs_out[k] \notin Range(accepted) <=> Blockers(pairs_out[k]) # {}
        /\ Range(accepted) \subseteq Range(pairs_out)

\* A pair is removed by a parallel line-like, and another pair is kept although
\* a line-like that is not parallel to it crosses its interior for more than 1 mm.
C14_Witness ==
    /\ phase = "C_done"
    /\ \E k \in 1..Len(pairs_out) : pairs_out[k] \notin Range(accepted)
    /\ \E k \in 1..Len(pairs_out) :
           /\ pairs_out[k] \in Range(accepted)
           /\ \E l \in Range(line_entities) :
                  /\ ~ParallelToPair(l, pairs_out[k])
                  /\ RunInside(l, pairs_out[k]) > 1 * UnitsPerMmB

(***************************************************************************)
(* C15 (Stage B, SpecB)                                                    *)
(***************************************************************************)
\* Two non-degenerate axis-parallel line-likes of the same direction.
ParallelLines(l1, l2) ==
    \/ IsHorizontal(l1) /\ IsHorizontal(l2)
    \/ IsVertical(l1) /\ IsVertical(l2)

\* Perpendicular separation of two parallel line-likes (0.001 mm).
Separation(l1, l2) ==
    IF IsHorizontal(l1) THEN Abs(l1.y1 - l2.y1) ELSE Abs(l1.x1 - l2.x1)

\* Length of the longitudinal overlap of two parallel line-likes (0.001 mm); 0 or
\* less when they do not overlap.
LongitudinalOverlap(l1, l2) ==
    IF IsHorizontal(l1)
    THEN Min2(Max2(l1.x1, l1.x2), Max2(l2.x1, l2.x2)) - Max2(Min2(l1.x1, l1.x2), Min2(l2.x1, l2.x2))
    ELSE Min2(Max2(l1.y1, l1.y2), Max2(l2.y1, l2.y2)) - Max2(Min2(l1.y1, l1.y2), Min2(l2.y1, l2.y2))

QuadEmittedFor(l1, l2) ==
    \E k \in 1..Len(pairs_out) :
        { pairs_out[k].sourceLineIdA, pairs_out[k].sourceLineIdB } = { l1.id, l2.id }

InDistanceWindow(s) == 10 * UnitsPerMmB <= s /\ s <= 450 * UnitsPerMmB

EveryQuadInWindow == \A k \in 1..Len(pairs_out) : InDistanceWindow(pairs_out[k].distance)

\* C15 as stated: for parallel line-likes with a non-empty longitudinal overlap
\* a quad is emitted exactly when 10 mm <= s <= 450 mm, and no emitted quad has a
\* distance outside that window.
C15_QuadIffInDistanceWindow ==
    phase = "B_done" =>
        /\ \A i, j \in 1..Len(line_entities) :
               (/\ i < j
                /\ ParallelLines(line_entities[i], line_entities[j])
                /\ LongitudinalOverlap(line_entities[i], line_entities[j]) > 0)
               => (QuadEmittedFor(line_entities[i], line_entities[j])
                      <=> InDistanceWindow(Separation(line_entities[i], line_entities[j])))
        /\ EveryQuadInWindow

\* C15 amended: the same for parallel line-likes whose longitudinal overlap is
\* longer than EPS_OVERLAP_MM (0.01 mm); a shorter overlap gives no quad at any
\* separation.
C15_QuadIffInWindowAndOverlapping ==
    phase = "B_done" =>
        /\ \A i, j \in 1..Len(line_entities) :
               (i < j /\ ParallelLines(line_entities[i], line_entities[j]))
               => (QuadEmittedFor(line_entities[i], line_entities[j])
                      <=> /\ LongitudinalOverlap(line_entities[i], line_entities[j]) > EPS_OVERLAP_MM
                          /\ InDistanceWindow(Separation(line_entities[i], line_entities[j])))
        /\ EveryQuadInWindow

\* A quad at exactly 450 mm next to an overlapping parallel pair at 450.001 mm
\* that gives none.
C15_Witness ==
    /\ phase = "B_done"
    /\ \E k \in 1..Len(pairs_out) : pairs_out[k].distance = 450 * UnitsPerMmB
    /\ \E i, j \in 1..Len(line_entities) :
           /\ ParallelLines(line_entities[i], line_entities[j])
           /\ LongitudinalOverlap(line_entities[i], line_entities[j]) > EPS_OVERLAP_MM
           /\ Separation(line_entities[i], line_entities[j]) = 450 * UnitsPerMmB + 1
           /\ ~QuadEmittedFor(line_entities[i], line_entities[j])

(***************************************************************************)
(* Door-rectangle assignment - door_rectangle_assignment_processor.py.     *)
(* Unit: 0.5 mm, as in the door bridge, so that the centre of an           *)
(* integer-mm bounding box is an integer.  A Rotation is a plain number.   *)
(* A block is a record whose optional keys (layer_name, data, and inside   *)
(* data BoundingBox, Position, Rotation, rotate) may be absent.            *)
(***************************************************************************)
DOOR_BBOX_EXPAND_MM == 200 * UnitsPerMmBridge

_expand_bbox_none(bbox, margin_mm) == bbox

_expand_bbox(bbox, margin_mm) ==
    << bbox[1] - margin_mm, bbox[2] - margin_mm, bbox[3] + margin_mm, bbox[4] + margin_mm >>

\* block_data.get("Rotation") or block_data.get("rotate"): << rot >>, or <<>> for None.
RawRotation(block_data) ==
    IF "Rotation" \in DOMAIN block_data /\ block_data.Rotation # 0
    THEN << block_data.Rotation >>
    ELSE IF "rotate" \in DOMAIN block_data THEN << block_data.rotate >>
    ELSE <<>>

\* Line 31-32 with the factor 360/400.
DegreesTimes100Grad(rot) ==
    IF Abs(rot) > 360 /\ Abs(rot) <= 4000 THEN rot * 90 ELSE rot * 100

\* Lines 30-32: deg, in hundredths of a degree (360.0 / 4000.0 = 0.09).
DegreesTimes100(rot) ==
    IF Abs(rot) > 360 /\ Abs(rot) <= 4000 THEN rot * 9 ELSE rot * 100

\* Lines 33-35: deg % 360, round(deg / 90) * 90 with Python's round, % 360.
SnapDegrees(deg100) == (RoundHalfEven(deg100 % 36000, 9000) * 90) % 360

RotationSnapped(rot) == IF rot = <<>> THEN 0 ELSE SnapDegrees(DegreesTimes100(rot[1]))

_rotation_to_degrees_90(block_data) == RotationSnapped(RawRotation(block_data))

\* math.cos / math.sin of a multiple of 90 degrees.
Cos90(angle_deg) == IF angle_deg = 0 THEN 1 ELSE IF angle_deg = 180 THEN -1 ELSE 0

Sin90(angle_deg) == IF angle_deg = 90 THEN 1 ELSE IF angle_deg = 270 THEN -1 ELSE 0

\* rotate(x, y) of lines 62-66.
RotateCorner(x, y, cx, cy, px, py, cos_a, sin_a) ==
    << cx + (x - cx) * cos_a - (y - cy) * sin_a + (px - cx),
       cy + (x - cx) * sin_a + (y - cy) * cos_a + (py - cy) >>

\* Lines 68-76.
WorldBBoxOfCorners(c1, c2, c3, c4) ==
    << SetMin({ c1[1], c2[1], c3[1], c4[1] }), SetMin({ c1[2], c2[2], c3[2], c4[2] }),
       SetMax({ c1[1], c2[1], c3[1], c4[1] }), SetMax({ c1[2], c2[2], c3[2], c4[2] }) >>

WorldBBoxRotated(min_pt, max_pt, cx, cy, px, py, cos_a, sin_a) ==
    WorldBBoxOfCorners(RotateCorner(min_pt[1], min_pt[2], cx, cy, px, py, cos_a, sin_a),
                       RotateCorner(max_pt[1], min_pt[2], cx, cy, px, py, cos_a, sin_a),
                       RotateCorner(max_pt[1], max_pt[2], cx, cy, px, py, cos_a, sin_a),
                       RotateCorner(min_pt[1], max_pt[2], cx, cy, px, py, cos_a, sin_a))

\* Lines 54-60: the position (the box centre when absent) and the snapped angle.
WorldBBoxPlaced(block_data, min_pt, max_pt, cx, cy, angle_deg) ==
    WorldBBoxRotated(min_pt, max_pt, cx, cy,
                     IF "Position" \in DOMAIN block_data THEN block_data.Position[1] ELSE cx,
                     IF "Position" \in DOMAIN block_data THEN block_data.Position[2] ELSE cy,
                     Cos90(angle_deg), Sin90(angle_deg))

\* Lines 48-53 and 57.
WorldBBoxOfBox(block_data, min_pt, max_pt) ==
    WorldBBoxPlaced(block_data, min_pt, max_pt,
                    (min_pt[1] + max_pt[1]) \div 2, (min_pt[2] + max_pt[2]) \div 2,
                    _rotation_to_degrees_90(block_data))

\* (xmin, ymin, xmax, ymax), or NoValue when the block has no bounding box.
_get_door_world_bbox(block_data) ==
    IF "BoundingBox" \notin DOMAIN block_data THEN NoValue
    ELSE IF \/ "MinPoint" \notin DOMAIN block_data.BoundingBox
            \/ "MaxPoint" \notin DOMAIN block_data.BoundingBox
    THEN NoValue
    ELSE WorldBBoxOfBox(block_data, block_data.BoundingBox.MinPoint,
                        block_data.BoundingBox.MaxPoint)

\* Positive overlap on both axes.
_aabb_intersects(a, b) == a[1] < b[3] /\ a[3] > b[1] /\ a[2] < b[4] /\ a[4] > b[2]

\* block.get("layer_name") or "door"
DoorType(block) ==
    IF "layer_name" \in DOMAIN block /\ block.layer_name # "" THEN block.layer_name ELSE "door"

\* block.get("data") or {}
BlockData(block) == IF "data" \in DOMAIN block THEN block.data ELSE <<>>

\* Lines 111-117: the (0-based) indices of the rectangles that meet the box.
RECURSIVE IndicesFrom(_, _, _, _)
IndicesFrom(logic_e_rectangles_, expanded_bbox, rect_idx, indices) ==
    IF rect_idx >= Len(logic_e_rectangles_) THEN indices
    ELSE IndicesFrom(logic_e_rectangles_, expanded_bbox, rect_idx + 1,
                     IF _aabb_intersects(expanded_bbox,
                                         _get_bounds(logic_e_rectangles_[rect_idx + 1]))
                     THEN Append(indices, rect_idx) ELSE indices)

AssignmentRecord(door_idx, block, indices) ==
    [doorId |-> door_idx, doorType |-> DoorType(block),
     rectanglesCount |-> Len(indices), rectangleIndices |-> indices]

\* One turn of the loop of lines 99-123.
AssignmentOf(door_idx, block, door_bbox, logic_e_rectangles_) ==
    IF door_bbox = NoValue THEN AssignmentRecord(door_idx, block, <<>>)
    ELSE AssignmentRecord(door_idx, block,
                          IndicesFrom(logic_e_rectangles_,
                                      _expand_bbox(door_bbox, DOOR_BBOX_EXPAND_MM), 0, <<>>))

_compute_assignments(doors, logic_e_rectangles_) ==
    [k \in 1..Len(doors) |->
        AssignmentOf(k - 1, doors[k], _get_door_world_bbox(BlockData(doors[k])),
                     logic_e_rectangles_)]

IsDoor(b) == "window_or_door" \in DOMAIN b /\ b.window_or_door = "door"

\* doors = [b for b in window_door_blocks if b.get("window_or_door") == "door"]
DoorsOf(window_door_blocks) == SelectSeq(window_door_blocks, IsDoor)

\* Lines 140-171: the door_assignments of the returned dictionary.
AssignDoors(doors, logic_e_rectangles_) ==
    IF logic_e_rectangles_ = <<>>
    THEN [k \in 1..Len(doors) |-> AssignmentRecord(k - 1, doors[k], <<>>)]
    ELSE _compute_assignments(doors, logic_e_rectangles_)

(***************************************************************************)
(* Door-rectangle assignment specification.  pipeline_data holds the       *)
(* window_door_blocks entry, logic_e_rectangles the Stage-E output.        *)
(***************************************************************************)
MaxBlocks == 2

HalfMm(v) == v * UnitsPerMmBridge

Box(x0, y0, x1, y1) ==
    [MinPoint |-> << HalfMm(x0), HalfMm(y0) >>, MaxPoint |-> << HalfMm(x1), HalfMm(y1) >>]

\* A door leaf of 900 x 100 mm placed at (1500, 100), with the given Rotation.
DoorAt(rot) ==
    [window_or_door |-> "door", layer_name |-> "A-DOOR",
     data |-> [BoundingBox |-> Box(0, 0, 900, 100),
               Position |-> << HalfMm(1500), HalfMm(100) >>, Rotation |-> rot]]

Rotations == { 0, 45, 90, 135, 180, -90, 360, 361, 400, 500, 1000, -1000, 1500, 3500, 4000, 4001 }

\* The doors of every Rotation, a door turned through the "rotate" key, doors
\* without Position, without MaxPoint, without bounding box, without data and
\* without layer name, and a window.
BlockCatalogue ==
    { DoorAt(r) : r \in Rotations } \cup
    { [window_or_door |-> "door", layer_name |-> "A-DOOR",
       data |-> [BoundingBox |-> Box(0, 0, 900, 100),
                 Position |-> << HalfMm(1500), HalfMm(100) >>, Rotation |-> 0, rotate |-> 90]],
      [window_or_door |-> "door", layer_name |-> "A-DOOR-2",
       data |-> [BoundingBox |-> Box(1050, 50, 1950, 150)]],
      [window_or_door |-> "door", layer_name |-> "A-DOOR",
       data |-> [BoundingBox |-> [MinPoint |-> << 0, 0 >>],
                 Position |-> << HalfMm(1500), HalfMm(100) >>]],
      [window_or_door |-> "door", layer_name |-> "A-DOOR",
       data |-> [Position |-> << HalfMm(1500), HalfMm(100) >>, Rotation |-> 90]],
      [window_or_door |-> "door", layer_name |-> "A-DOOR"],
      [window_or_door |-> "door",
       data |-> [BoundingBox |-> Box(0, 0, 900, 100),
                 Position |-> << HalfMm(1500), HalfMm(100) >>]],
      [window_or_door |-> "window", layer_name |-> "A-GLAZ",
       data |-> [BoundingBox |-> Box(0, 0, 900, 100),
                 Position |-> << HalfMm(1500), HalfMm(100) >>]] }

\* Indices 0..4.  0 and 1: the walls left and right of the opening;  2: a wall
\* that only touches the expanded box of the unturned door (x = 2150 mm);
\* 3: a wall above the opening, met by the turned door only;  4: far away.
AssignRects ==
    << _bounds_to_quad_dict(HalfMm(0), HalfMm(0), HalfMm(1000), HalfMm(200)),
       _bounds_to_quad_dict(HalfMm(2000), HalfMm(0), HalfMm(3000), HalfMm(200)),
       _bounds_to_quad_dict(HalfMm(2150), HalfMm(0), HalfMm(2500), HalfMm(200)),
       _bounds_to_quad_dict(HalfMm(1400), HalfMm(600), HalfMm(1600), HalfMm(1600)),
       _bounds_to_quad_dict(HalfMm(5000), HalfMm(5000), HalfMm(6000), HalfMm(5200)) >>

window_door_blocks == pipeline_data[1].value

InitAssign ==
    /\ phase = "assign_input"
    /\ pipeline_data \in { << [key |-> "window_door_blocks", value |-> s] >> :
                             s \in SeqsUpTo(BlockCatalogue, MaxBlocks) }
    /\ logic_e_rectangles \in { <<>>, AssignRects, SubSeq(AssignRects, 3, 4) }
    /\ rectangles = <<>>
    /\ logic_d_rectangles = <<>>
    /\ logic_f_rectangles = <<>>
    /\ accepted = <<>>
    /\ step_status = <<>>
    /\ step_index = 0
    /\ results = <<>>
    /\ exec_log = <<>>
    /\ IdleB /\ IdleDoors /\ IdleParallel

\* DoorRectangleAssignmentProcessor.process
DoorRectangleAssignment ==
    /\ phase = "assign_input"
    /\ door_assignments' = AssignDoors(DoorsOf(window_door_blocks), logic_e_rectangles)
    /\ phase' = "assign_done"
    /\ UNCHANGED << door_center, door_bridges, varsB, varsRects, varsExec, varsParallel >>

NextAssign == DoorRectangleAssignment

SpecAssign == InitAssign /\ [][NextAssign]_vars

(***************************************************************************)
(* C16                                                                     *)
(***************************************************************************)
\* The world AABB of a door with a bounding box: the local box, turned by the
\* snapped rotation about its centre and moved so that the centre lies on
\* Position (a quarter turn swaps width and height).
WorldAABB(data) ==
    LET lo == data.BoundingBox.MinPoint
        hi == data.BoundingBox.MaxPoint
        quarter == _rotation_to_degrees_90(data) \in { 90, 270 }
        half_w == IF quarter THEN (hi[2] - lo[2]) \div 2 ELSE (hi[1] - lo[1]) \div 2
        half_h == IF quarter THEN (hi[1] - lo[1]) \div 2 ELSE (hi[2] - lo[2]) \div 2
        c == IF "Position" \in DOMAIN data THEN data.Position
             ELSE << (lo[1] + hi[1]) \div 2, (lo[2] + hi[2]) \div 2 >>
    IN  << c[1] - half_w, c[2] - half_h, c[1] + half_w, c[2] + half_h >>

HasBoundingBox(block) ==
    /\ "data" \in DOMAIN block
    /\ "BoundingBox" \in DOMAIN block.data
    /\ { "MinPoint", "MaxPoint" } \subseteq DOMAIN block.data.BoundingBox

\* The AABB of rectangle r overlaps the box w widened by 200 mm on each side.
OverlapsExpanded(r, w) ==
    LET xs == { CornerList(r)[k][1] : k \in 1..4 }
        ys == { CornerList(r)[k][2] : k \in 1..4 }
    IN  /\ SetMin(xs) < w[3] + 200 * UnitsPerMmBridge
        /\ SetMax(xs) > w[1] - 200 * UnitsPerMmBridge
        /\ SetMin(ys) < w[4] + 200 * UnitsPerMmBridge
        /\ SetMax(ys) > w[2] - 200 * UnitsPerMmBridge

ExpectedIndices(block) ==
    IF ~HasBoundingBox(block) THEN {}
    ELSE { i \in 0..(Len(logic_e_rectangles) - 1) :
             OverlapsExpanded(logic_e_rectangles[i + 1], WorldAABB(block.data)) }

DoorBlocks == DoorsOf(window_door_blocks)

\* C16: one record per door block and none for a window, in door order, also
\* for a door without bounding box or without matching rectangle; the
\* rectangleIndices of a record are, in ascending order, exactly the indices of
\* the Stage-E rectangles whose AABB overlaps the door's world AABB expanded by
\* 200 mm, and rectanglesCount is their number.
C16_OneRecordPerDoor ==
    phase = "assign_done" =>
        /\ Len(door_assignments) = Len(DoorBlocks)
        /\ \A k \in 1..Len(door_assignments) :
               /\ door_assignments[k].doorId = k - 1
               /\ door_assignments[k].doorType = DoorType(DoorBlocks[k])
               /\ Range(door_assignments[k].rectangleIndices) = ExpectedIndices(DoorBlocks[k])
               /\ \A a, b \in 1..Len(door_assignments[k].rectangleIndices) :
                      a < b => door_assignments[k].rectangleIndices[a]
                                   < door_assignments[k].rectangleIndices[b]
               /\ door_assignments[k].rectanglesCount
                      = Len(door_assignments[k].rectangleIndices)

\* A window next to a door that got the two walls at its sides (and not the
\* wall that only touches its expanded box).
C16_Witness ==
    /\ phase = "assign_done"
    /\ \E k \in 1..Len(window_door_blocks) : ~IsDoor(window_door_blocks[k])
    /\ Len(door_assignments) >= 1
    /\ logic_e_rectangles = AssignRects
    /\ \E k \in 1..Len(door_assignments) :
           door_assignments[k].rectangleIndices = << 0, 1 >>

(***************************************************************************)
(* C17                                                                     *)
(***************************************************************************)
\* Distance on the circle between two angles in hundredths of a degree.
CircularDistance(x, y) == Min2((x - y) % 36000, (y - x) % 36000)

\* Door blocks of the input whose raw Rotation r has 360 < |r| <= 4000.
ConvertedDoors ==
    { b \in Range(DoorBlocks) :
        /\ "data" \in DOMAIN b
        /\ "Rotation" \in DOMAIN b.data
        /\ Abs(b.data.Rotation) > 360
        /\ Abs(b.data.Rotation) <= 4000 }

\* snapped is one of 0, 90, 180, 270 and no multiple of 90 degrees is nearer to
\* the angle deg100 (hundredths of a degree).
IsNearestQuarterTurn(snapped, deg100) ==
    /\ snapped \in { 0, 90, 180, 270 }
    /\ CircularDistance(snapped * 100, deg100) <= 4500

\* C17 as stated: a raw Rotation r with 360 < |r| <= 4000 is converted to
\* degrees by the factor 360/400, and the snapped rotation is the multiple of
\* 90 degrees nearest to the converted angle, reduced to 0, 90, 180 or 270.
C17_GradFactor ==
    phase = "assign_done" =>
        \A b \in ConvertedDoors :
            IsNearestQuarterTurn(_rotation_to_degrees_90(b.data), b.data.Rotation * 90)

\* C17 amended: the factor is 360/4000 (4000 units are a full turn).
C17_FullTurnOf4000 ==
    phase = "assign_done" =>
        \A b \in ConvertedDoors :
            IsNearestQuarterTurn(_rotation_to_degrees_90(b.data), b.data.Rotation * 9)

\* A door with Rotation 1000 was processed as a door turned by 90 degrees: it
\* got the wall above the opening and not the walls at its sides.
C17_Witness ==
    /\ phase = "assign_done"
    /\ logic_e_rectangles = AssignRects
    /\ \E k \in 1..Len(DoorBlocks) :
           /\ DoorBlocks[k] = DoorAt(1000)
           /\ door_assignments[k].rectangleIndices = << 3 >>

(***************************************************************************)
(* C18 (door bridge, SpecBridge)                                           *)
(***************************************************************************)
\* The AABB of Stage-E rectangle idx (0-based) as (xmin, ymin, xmax, ymax).
AABBOf(idx) ==
    << logic_e_rectangles[idx + 1].bounding_rectangle.minX,
       logic_e_rectangles[idx + 1].bounding_rectangle.minY,
       logic_e_rectangles[idx + 1].bounding_rectangle.maxX,
       logic_e_rectangles[idx + 1].bounding_rectangle.maxY >>

\* [lo, hi] is the intersection of the ranges [a_lo, a_hi] and [b_lo, b_hi], or
\* their combined span when they have no stretch in common.
IsIntersectionOrSpan(lo, hi, a_lo, a_hi, b_lo, b_hi) ==
    IF Max2(a_lo, b_lo) < Min2(a_hi, b_hi)
    THEN lo = Max2(a_lo, b_lo) /\ hi = Min2(a_hi, b_hi)
    ELSE lo = Min2(a_lo, b_lo) /\ hi = Max2(a_hi, b_hi)

\* [lo, hi] is the gap between the facing edges of the ranges [n_lo, n_hi] (the
\* nearer one, by its centre) and [f_lo, f_hi], and it is at most 2000 mm wide.
IsGapBetween(lo, hi, n_lo, n_hi, f_lo, f_hi) ==
    /\ n_lo + n_hi <= f_lo + f_hi
    /\ lo = n_hi /\ hi = f_lo
    /\ 0 < hi - lo /\ hi - lo <= 2000 * UnitsPerMmBridge

\* The bridge br of orientation "H" or "V" is the one claimed for the
\* rectangles with bounds a and b.
IsBridgeOf(br, orientation, a, b) ==
    IF orientation = "H"
    THEN /\ \/ IsGapBetween(br.minX, br.maxX, a[1], a[3], b[1], b[3])
            \/ IsGapBetween(br.minX, br.maxX, b[1], b[3], a[1], a[3])
         /\ IsIntersectionOrSpan(br.minY, br.maxY, a[2], a[4], b[2], b[4])
    ELSE /\ \/ IsGapBetween(br.minY, br.maxY, a[2], a[4], b[2], b[4])
            \/ IsGapBetween(br.minY, br.maxY, b[2], b[4], a[2], a[4])
         /\ IsIntersectionOrSpan(br.minX, br.maxX, a[1], a[3], b[1], b[3])

\* The rectangle indices of door k that exist.
AssignedTo(k) ==
    { idx \in Range(door_assignments[k].rectangleIndices) :
        idx >= 0 /\ idx < Len(logic_e_rectangles) }

SpansGapOfAssignedPair(bridge, k) ==
    \E i, j \in AssignedTo(k) :
        i # j /\ IsBridgeOf(bridge.bridgeRectangle, bridge.meta.orientation, AABBOf(i), AABBOf(j))

\* C18: every bridge rectangle, emitted or built and then pruned, spans exactly
\* the gap between the facing inner edges of two Stage-E rectangles assigned to
\* its door, the gap being positive and at most 2000 mm, and its perpendicular
\* extent is the intersection of their perpendicular ranges, or their span when
\* the ranges have nothing in common; so none is built over a gap that is not
\* positive or wider than 2000 mm.
C18_BridgeSpansGap ==
    phase = "bridge_done" =>
        \A k \in 1..Len(door_bridges) :
            /\ \A m \in 1..Len(door_bridges[k].bridges) :
                   SpansGapOfAssignedPair(door_bridges[k].bridges[m], k)
            /\ \A m \in 1..Len(BuiltFor(k)) : SpansGapOfAssignedPair(BuiltFor(k)[m], k)

\* One door whose bridge is as high as the common part of the two y-ranges
\* (rectangles 0 and 2: 20..50 mm), another whose bridge is as high as their
\* span (rectangles 0 and 6: 0..95 mm).
C18_Witness ==
    /\ phase = "bridge_done"
    /\ Len(door_bridges) = 2
    /\ door_assignments[1].rectangleIndices = << 0, 2 >>
    /\ door_assignments[2].rectangleIndices = << 0, 6 >>
    /\ Len(door_bridges[1].bridges) = 1
    /\ door_bridges[1].bridges[1].bridgeRectangle = [minX |-> 200, maxX |-> 400, minY |-> 40, maxY |-> 100]
    /\ Len(door_bridges[2].bridges) = 1
    /\ door_bridges[2].bridges[1].bridgeRectangle = [minX |-> 200, maxX |-> 400, minY |-> 0, maxY |-> 190]

(***************************************************************************)
(* C19: bounding_rectangle against the four corner points, in the output   *)
(* of Stage B, Stage E and Stage F.                                        *)
(***************************************************************************)

\* Stage E reads what Stage D kept of the Stage B pairs, and each of those
\* carries the bounding_rectangle Stage B gave it (logic_b_processor.py lines
\* 279-283).
WithStageBBounds(rect) ==
    IF "bounding_rectangle" \in DOMAIN rect THEN rect
    ELSE [f \in DOMAIN rect \cup { "bounding_rectangle" } |->
            IF f = "bounding_rectangle"
            THEN [minX |-> _get_bounds(rect)[1], minY |-> _get_bounds(rect)[2],
                  maxX |-> _get_bounds(rect)[3], maxY |-> _get_bounds(rect)[4]]
            ELSE rect[f]]

InputsEBounded ==
    { [k \in DOMAIN s |-> WithStageBBounds(s[k])] : s \in InputsE }

InitEBounded ==
    /\ phase = "E_input"
    /\ logic_d_rectangles \in InputsEBounded
    /\ rectangles = <<>>
    /\ logic_e_rectangles = <<>>
    /\ logic_f_rectangles = <<>>
    /\ accepted = <<>>
    /\ IdleB /\ IdleDoors /\ IdleExec /\ IdleParallel

\* One run of Stage B, of Stage E or of Stage F, each on its own input.
InitBounds == InitB \/ InitEBounded \/ InitF

NextBounds == LogicB \/ LogicE \/ LogicF

SpecBounds == InitBounds /\ [][NextBounds]_vars

\* The axis-aligned bounding box of the end points of trimmedSegmentA and
\* trimmedSegmentB.
CornerAABB(rect) ==
    [minX |-> SetMin({ rect.trimmedSegmentA.p1[1], rect.trimmedSegmentA.p2[1],
                       rect.trimmedSegmentB.p1[1], rect.trimmedSegmentB.p2[1] }),
     minY |-> SetMin({ rect.trimmedSegmentA.p1[2], rect.trimmedSegmentA.p2[2],
                       rect.trimmedSegmentB.p1[2], rect.trimmedSegmentB.p2[2] }),
     maxX |-> SetMax({ rect.trimmedSegmentA.p1[1], rect.trimmedSegmentA.p2[1],
                       rect.trimmedSegmentB.p1[1], rect.trimmedSegmentB.p2[1] }),
     maxY |-> SetMax({ rect.trimmedSegmentA.p1[2], rect.trimmedSegmentA.p2[2],
                       rect.trimmedSegmentB.p1[2], rect.trimmedSegmentB.p2[2] })]

BoundsMatchCorners(rect) ==
    /\ "bounding_rectangle" \in DOMAIN rect
    /\ rect.bounding_rectangle = CornerAABB(rect)

AllBoundsMatch(rects) == \A k \in 1..Len(rects) : BoundsMatchCorners(rects[k])

\* C19: in the output of Stage B, of Stage E and of Stage F, every rectangle
\* has a bounding_rectangle, and it is exactly the axis-aligned bounding box
\* of the four end points of trimmedSegmentA and trimmedSegmentB; this holds
\* for the rectangles whose end points Stage F moved as well.
C19_BoundsMatchCorners ==
    /\ phase = "B_done" => AllBoundsMatch(pairs_out)
    /\ phase = "E_done" => AllBoundsMatch(logic_e_rectangles)
    /\ phase = "F_done" => AllBoundsMatch(logic_f_rectangles)

\* Stage F has moved the end points of a rectangle: its corner box is no
\* longer the one it came in with, and its bounding_rectangle is the new one.
C19_Witness ==
    /\ phase = "F_done"
    /\ \E k \in 1..Len(logic_f_rectangles) :
          /\ logic_f_rectangles[k].extended
          /\ CornerAABB(logic_f_rectangles[k]) # CornerAABB(logic_e_rectangles[k])
          /\ logic_e_rectangles[k].bounding_rectangle = CornerAABB(logic_e_rectangles[k])
          /\ logic_f_rectangles[k].bounding_rectangle = CornerAABB(logic_f_rectangles[k])

(***************************************************************************)
(* CLEAN_DEDUP: clean_dedup_processor.py.  An entity is a record with      *)
(* layer_name, entity_type, original_data and normalized_data (and         *)
(* block_name for a block), as the normalizer builds them; normalized_data *)
(* is a Python value, original_data the raw data the hash does not read.   *)
(* Coordinates are floats with whole values.                               *)
(***************************************************************************)

PyFloat(n) == [t |-> "float", v |-> n]

\* The keys of normalized_data in the order sorted() gives them.
SortedKeyNames ==
    << "BoundingBox", "End", "IsClosed", "MaxPoint", "MinPoint", "Position",
       "Rotation", "ScaleX", "ScaleY", "Start", "Vertices", "X", "Y", "Z" >>

KeyRank(k) == CHOOSE r \in 1..Len(SortedKeyNames) : SortedKeyNames[r] = k

\* sorted(dct.items()) of json.dumps(..., sort_keys=True).
SortedItems(items) ==
    [i \in 1..Len(items) |->
        items[CHOOSE a \in 1..Len(items) :
                Cardinality({ b \in 1..Len(items) :
                                KeyRank(items[b].key) < KeyRank(items[a].key) }) = i - 1]]

\* json.dumps(o, sort_keys=True): one line, separators ", " and ": ".
RECURSIVE DumpsSorted(_)
RECURSIVE DumpsSortedDict(_, _)
RECURSIVE DumpsSortedList(_, _)
DumpsSortedDict(items, k) ==
    IF k > Len(items) THEN ""
    ELSE (IF k > 1 THEN ", " ELSE "")
         \o "\"" \o items[k].key \o "\": " \o DumpsSorted(items[k].value)
         \o DumpsSortedDict(items, k + 1)

DumpsSortedList(items, k) ==
    IF k > Len(items) THEN ""
    ELSE (IF k > 1 THEN ", " ELSE "")
         \o DumpsSorted(items[k])
         \o DumpsSortedList(items, k + 1)

DumpsSorted(o) ==
    CASE o.t = "null" -> "null"
      [] o.t = "bool" -> IF o.v THEN "true" ELSE "false"
      [] o.t = "int" -> ToString(o.v)
      [] o.t = "float" -> ToString(o.v) \o ".0"
      [] o.t = "str" -> "\"" \o o.v \o "\""
      [] o.t = "list" -> "[" \o DumpsSortedList(o.items, 1) \o "]"
      [] o.t = "dict" -> "{" \o DumpsSortedDict(SortedItems(o.items), 1) \o "}"

\* '|'.join(hash_components)
HashString(entity) ==
    entity.layer_name \o "|" \o entity.entity_type \o "|"
    \o DumpsSorted(entity.normalized_data)
    \o (IF "block_name" \in DOMAIN entity THEN "|" \o entity.block_name ELSE "")

\* hashlib.sha256(...).hexdigest(): the digest stands for the text it was
\* computed from (two different texts have different digests).
_generate_entity_hash(entity) == [sha256 |-> HashString(entity)]

\* entity['entity_hash'] = entity_hash
WithEntityHash(entity, entity_hash) ==
    [f \in DOMAIN entity \cup { "entity_hash" } |->
        IF f = "entity_hash" THEN entity_hash ELSE entity[f]]

IsNewHashAlways(entity_hash, hashes) == TRUE

\* if entity_hash not in line_hashes (and the same for the other two kinds)
IsNewHash(entity_hash, hashes) == entity_hash \notin hashes

\* One of the three loops of process: acc holds the hashes seen, the entities
\* kept, dedup_stats and (visited) the entities of the input list as the loop
\* leaves them: a kept entity is the input object itself, so the input list
\* holds it with its entity_hash afterwards.
RECURSIVE DedupFrom(_, _, _)
DedupEntity(entity_list, k, acc, entity_hash) ==
    IF IsNewHash(entity_hash, acc.hashes)
    THEN DedupFrom(entity_list, k + 1,
                   [hashes |-> acc.hashes \cup { entity_hash },
                    kept |-> Append(acc.kept, WithEntityHash(entity_list[k], entity_hash)),
                    visited |-> Append(acc.visited,
                                       WithEntityHash(entity_list[k], entity_hash)),
                    dedup_stats |->
                        [acc.dedup_stats EXCEPT !.original_count = @ + 1,
                                                !.final_count = @ + 1]])
    ELSE DedupFrom(entity_list, k + 1,
                   [acc EXCEPT !.visited = Append(@, entity_list[k]),
                               !.dedup_stats.original_count = @ + 1,
                               !.dedup_stats.duplicate_count = @ + 1])

DedupFrom(entity_list, k, acc) ==
    IF k > Len(entity_list) THEN acc
    ELSE DedupEntity(entity_list, k, acc, _generate_entity_hash(entity_list[k]))

\* A loop starts with its own empty hash set and list and the counts so far.
DedupList(entity_list, dedup_stats) ==
    DedupFrom(entity_list, 1, [hashes |-> {}, kept |-> <<>>, visited |-> <<>>,
                               dedup_stats |-> dedup_stats])

\* Lines 115-124, and (input) normalize_results as the loops leave it.
DedupResult(lines, polylines, blocks) ==
    [entities |-> [lines |-> lines.kept, polylines |-> polylines.kept,
                   blocks |-> blocks.kept],
     dedup_stats |-> blocks.dedup_stats,
     totals |-> [lines |-> Len(lines.kept), polylines |-> Len(polylines.kept),
                 blocks |-> Len(blocks.kept), total |-> blocks.dedup_stats.final_count],
     input |-> [entities |-> [lines |-> lines.visited, polylines |-> polylines.visited,
                              blocks |-> blocks.visited]]]

DedupBlocks(entities, lines, polylines) ==
    DedupResult(lines, polylines, DedupList(entities.blocks, polylines.dedup_stats))

DedupPolylines(entities, lines) ==
    DedupBlocks(entities, lines, DedupList(entities.polylines, lines.dedup_stats))

\* Lines 26-82: the three loops.
DedupLoops(entities) ==
    DedupPolylines(entities,
                   DedupList(entities.lines,
                             [original_count |-> 0, duplicate_count |-> 0,
                              final_count |-> 0, hash_collisions |-> 0]))

\* The value process returns.
DedupEntities(entities) ==
    [f \in { "entities", "dedup_stats", "totals" } |-> DedupLoops(entities)[f]]

\* normalize_results after process: its entity objects are the ones the
\* loops wrote entity_hash into.
NormalizeResultsAfterDedup(entities) == DedupLoops(entities).input

\* _generate_canvas_data: the canvas lines of each layer, layers in the order
\* they are first met.  (The length of a line, the drawing bounds and the
\* layer colours are floats and colour names computed from the same entities;
\* they are left out.)
CanvasPoint(p) ==
    [x |-> Get(p, "X").v, y |-> Get(p, "Y").v, z |-> GetOr(p, "Z", PyInt(0)).v]

CanvasLineOfLine(line_entity) ==
    [layer_name |-> line_entity.layer_name,
     id |-> line_entity.entity_hash,
     start |-> CanvasPoint(Get(line_entity.normalized_data, "Start")),
     end |-> CanvasPoint(Get(line_entity.normalized_data, "End"))]

\* f"{polyline_entity['entity_hash']}_seg_{i}", i from 0.
CanvasLinesOfVertices(polyline_entity, vertices) ==
    [k \in 1..(IF Len(vertices) = 0 THEN 0 ELSE Len(vertices) - 1) |->
        [layer_name |-> polyline_entity.layer_name,
         id |-> [sha256 |-> polyline_entity.entity_hash.sha256,
                 suffix |-> "_seg_" \o ToString(k - 1)],
         start |-> CanvasPoint(vertices[k]),
         end |-> CanvasPoint(vertices[k + 1])]]

CanvasLinesOfPolyline(polyline_entity) ==
    CanvasLinesOfVertices(polyline_entity,
                          GetOr(polyline_entity.normalized_data, "Vertices", PyList(<<>>)).items)

RECURSIVE CanvasLinesOfPolylines(_, _)
CanvasLinesOfPolylines(polylines, k) ==
    IF k > Len(polylines) THEN <<>>
    ELSE CanvasLinesOfPolyline(polylines[k]) \o CanvasLinesOfPolylines(polylines, k + 1)

CanvasLineRecord(cl) == [id |-> cl.id, start |-> cl.start, end |-> cl.end]

AddCanvasLine(layers, cl) ==
    IF \E a \in 1..Len(layers) : layers[a].layer_name = cl.layer_name
    THEN [a \in 1..Len(layers) |->
            IF layers[a].layer_name = cl.layer_name
            THEN [layers[a] EXCEPT !.lines = Append(@, CanvasLineRecord(cl))]
            ELSE layers[a]]
    ELSE Append(layers, [layer_name |-> cl.layer_name,
                         lines |-> << CanvasLineRecord(cl) >>, visible |-> TRUE])

RECURSIVE CanvasLayers(_, _, _)
CanvasLayers(canvas_lines, k, layers) ==
    IF k > Len(canvas_lines) THEN layers
    ELSE CanvasLayers(canvas_lines, k + 1, AddCanvasLine(layers, canvas_lines[k]))

CanvasData(canvas_lines, layers) ==
    [layers |-> layers,
     statistics |-> [total_lines |-> Len(canvas_lines),
                     total_layers |-> Len(layers),
                     layer_names |-> [a \in 1..Len(layers) |-> layers[a].layer_name]]]

CanvasOfLines(canvas_lines) ==
    CanvasData(canvas_lines, CanvasLayers(canvas_lines, 1, <<>>))

_generate_canvas_data(entities) ==
    CanvasOfLines([k \in 1..Len(entities.lines) |-> CanvasLineOfLine(entities.lines[k])]
                  \o CanvasLinesOfPolylines(entities.polylines, 1))

\* The catalogue: what the normalizer emits for a few lines, polylines and
\* blocks, among them entities that differ only in their raw data.
MaxEntities == 3

NPoint(x, y) ==
    PyDict(<< Item("X", PyFloat(x)), Item("Y", PyFloat(y)), Item("Z", PyFloat(0)) >>)

NLine(layer, x1, y1, x2, y2, raw) ==
    [layer_name |-> layer, entity_type |-> "LINE", original_data |-> raw,
     normalized_data |-> PyDict(<< Item("Start", NPoint(x1, y1)),
                                   Item("End", NPoint(x2, y2)) >>)]

NPolyline(layer, vertices, closed, raw) ==
    [layer_name |-> layer, entity_type |-> "POLYLINE", original_data |-> raw,
     normalized_data |-> PyDict(<< Item("Vertices", PyList(vertices)),
                                   Item("IsClosed", PyBool(closed)) >>)]

NBlock(layer, name, x, y, raw) ==
    [layer_name |-> layer, entity_type |-> "BLOCK", original_data |-> raw,
     normalized_data |-> PyDict(<< Item("Position", NPoint(x, y)),
                                   Item("Rotation", PyFloat(0)),
                                   Item("ScaleX", PyFloat(1)),
                                   Item("ScaleY", PyFloat(1)) >>),
     block_name |-> name]

EntityCatalogue ==
    { NLine("A", 0, 0, 100, 0, "raw-1"),
      NLine("A", 0, 0, 100, 0, "raw-2"),
      NLine("B", 0, 0, 100, 0, "raw-1"),
      NLine("A", 100, 0, 0, 0, "raw-1"),
      NLine("A", 0, 0, 100, -5, "raw-1"),
      NPolyline("A", << NPoint(0, 0), NPoint(100, 0) >>, FALSE, "raw-1"),
      NPolyline("A", << NPoint(0, 0), NPoint(100, 0) >>, FALSE, "raw-2"),
      NPolyline("A", << NPoint(0, 0), NPoint(100, 0), NPoint(100, 50) >>, TRUE, "raw-1"),
      NBlock("A", "Door", 10, 10, "raw-1"),
      NBlock("A", "Door", 10, 10, "raw-2"),
      NBlock("A", "Window", 10, 10, "raw-1") }

IsLineEntity(e) == e.entity_type = "LINE"

IsPolylineEntity(e) == e.entity_type = "POLYLINE"

IsBlockEntity(e) == e.entity_type = "BLOCK"

\* normalize_results of up to MaxEntities entities in all.
InputsDedup ==
    { [entities |-> [lines |-> SelectSeq(s, IsLineEntity),
                     polylines |-> SelectSeq(s, IsPolylineEntity),
                     blocks |-> SelectSeq(s, IsBlockEntity)]] :
        s \in SeqsUpTo(EntityCatalogue, MaxEntities) }

normalize_results == pipeline_data[1].value

InitDedup ==
    /\ phase = "dedup_input"
    /\ pipeline_data \in { << [key |-> "normalize_results", value |-> n] >> : n \in InputsDedup }
    /\ step_status = <<>>
    /\ step_index = 0
    /\ results = <<>>
    /\ exec_log = <<>>
    /\ IdleB /\ IdleRects /\ IdleDoors /\ IdleParallel

\* CleanDedupProcessor.process.  _create_canvas_artifact swallows every
\* exception of the artifact service: the canvas data is stored or it is not.
CleanDedup ==
    /\ phase = "dedup_input"
    /\ results' = DedupEntities(normalize_results.entities)
    /\ artifact' \in { << _generate_canvas_data(DedupEntities(normalize_results.entities).entities) >>,
                       <<>> }
    /\ pipeline_data' = << [key |-> "normalize_results",
                             value |-> NormalizeResultsAfterDedup(normalize_results.entities)] >>
    /\ phase' = "dedup_done"
    /\ UNCHANGED << step_status, step_index, exec_log,
                    layer_groups, pending, processed_results,
                    varsB, varsRects, varsDoors >>

NextDedup == CleanDedup

SpecDedup == InitDedup /\ [][NextDedup]_vars

(***************************************************************************)
(* C20                                                                     *)
(***************************************************************************)

Kinds == { "lines", "polylines", "blocks" }

\* The positions of a list whose hash no earlier position has.
FirstOccurrences(entity_list) ==
    { k \in 1..Len(entity_list) :
        \A j \in 1..(k - 1) :
            _generate_entity_hash(entity_list[j]) # _generate_entity_hash(entity_list[k]) }

\* The i-th first occurrence, in input order.
NthFirstOccurrence(entity_list, i) ==
    CHOOSE k \in FirstOccurrences(entity_list) :
        Cardinality({ j \in FirstOccurrences(entity_list) : j < k }) = i - 1

\* out is the input entity with nothing changed but the entity_hash it got.
IsKeptCopyOf(out, entity) ==
    /\ DOMAIN out = DOMAIN entity \cup { "entity_hash" }
    /\ \A f \in DOMAIN entity : out[f] = entity[f]
    /\ out.entity_hash = _generate_entity_hash(entity)

KeepsFirstOccurrences(entity_list, kept) ==
    /\ Len(kept) = Cardinality(FirstOccurrences(entity_list))
    /\ \A i \in 1..Len(kept) :
          IsKeptCopyOf(kept[i], entity_list[NthFirstOccurrence(entity_list, i)])

\* C20: of the entities of one kind with the same content hash, the output
\* holds exactly the first in input order and none of the later ones; the
\* kept entities stand in their input order; and original_count =
\* final_count + duplicate_count, where original_count counts the input
\* entities and final_count the kept ones.
C20_FirstOccurrenceWins ==
    phase = "dedup_done" =>
        /\ \A kind \in Kinds :
              KeepsFirstOccurrences(normalize_results.entities[kind], results.entities[kind])
        /\ results.dedup_stats.original_count =
              results.dedup_stats.final_count + results.dedup_stats.duplicate_count
        /\ results.dedup_stats.original_count =
              Len(normalize_results.entities.lines)
              + Len(normalize_results.entities.polylines)
              + Len(normalize_results.entities.blocks)
        /\ results.dedup_stats.final_count =
              Len(results.entities.lines) + Len(results.entities.polylines)
              + Len(results.entities.blocks)

\* A list holds two different entities with one hash, the earlier one is in
\* the output and the later one is not, and an entity that comes after both
\* is kept behind the first.
C20_Witness ==
    /\ phase = "dedup_done"
    /\ \E kind \in Kinds :
          /\ Len(normalize_results.entities[kind]) = 3
          /\ normalize_results.entities[kind][1] # normalize_results.entities[kind][2]
          /\ _generate_entity_hash(normalize_results.entities[kind][1])
                = _generate_entity_hash(normalize_results.entities[kind][2])
          /\ Len(results.entities[kind]) = 2
          /\ results.entities[kind][1].original_data
                = normalize_results.entities[kind][1].original_data
          /\ IsKeptCopyOf(results.entities[kind][2], normalize_results.entities[kind][3])
    /\ results.dedup_stats.duplicate_count = 1

(***************************************************************************)
(* The line-like list of Stage B and Stage C: line_utils.py, fed by the    *)
(* parallel_ready_entities of PARALLEL_NAIVE, which are the deduplicated   *)
(* entities.                                                               *)
(***************************************************************************)

\* parallel_naive_processor.py lines 24-27 and 72: all_entities is the
\* deduplicated lines, then polylines, then blocks.  (The layer analysis of
\* the same processor is the subject of SpecParallel and does not touch the
\* list.)
ParallelReadyEntities(entities) ==
    entities.lines \o entities.polylines \o entities.blocks

\* Lines 23-33: segment i of a polyline, i from 0.
PolylineSegments(entity, vertices) ==
    [k \in 1..(IF Len(vertices) = 0 THEN 0 ELSE Len(vertices) - 1) |->
        [entity_type |-> "LINE",
         entity_hash |-> [sha256 |-> entity.entity_hash.sha256,
                          suffix |-> "_seg_" \o ToString(k - 1)],
         layer_name |-> entity.layer_name,
         normalized_data |-> PyDict(<< Item("Start", vertices[k]),
                                       Item("End", vertices[k + 1]) >>)]]

LineLikeOf(entity) ==
    IF entity.entity_type = "LINE" THEN << entity >>
    ELSE IF entity.entity_type = "POLYLINE"
    THEN PolylineSegments(entity,
                          GetOr(entity.normalized_data, "Vertices", PyList(<<>>)).items)
    ELSE <<>>

RECURSIVE LineLikeFrom(_, _)
LineLikeFrom(parallel_ready_entities, k) ==
    IF k > Len(parallel_ready_entities) THEN <<>>
    ELSE LineLikeOf(parallel_ready_entities[k])
         \o LineLikeFrom(parallel_ready_entities, k + 1)

build_line_like_entities(parallel_ready_entities) ==
    LineLikeFrom(parallel_ready_entities, 1)

\* ParallelNaiveProcessor.process, as far as parallel_ready_entities goes.
ParallelReady ==
    /\ phase = "dedup_done"
    /\ processed_results' = ParallelReadyEntities(results.entities)
    /\ phase' = "parallel_ready"
    /\ UNCHANGED << step_status, step_index, pipeline_data, results, exec_log,
                    layer_groups, pending, artifact, varsB, varsRects, varsDoors >>

\* LogicBProcessor.process line 76 and LogicCProcessor.process line 93.
BuildLineLike ==
    /\ phase = "parallel_ready"
    /\ line_entities' = build_line_like_entities(processed_results)
    /\ phase' = "line_like_built"
    /\ UNCHANGED << pairs_out, varsRects, varsDoors, varsExec, varsParallel >>

NextLineLike == CleanDedup \/ ParallelReady \/ BuildLineLike

SpecLineLike == InitDedup /\ [][NextLineLike]_vars

(***************************************************************************)
(* C21                                                                     *)
(***************************************************************************)

IsPolylineEdge(seg) == "suffix" \in DOMAIN seg.entity_hash

SameQuantizedSegment(a, b) ==
    /\ a.layer_name = b.layer_name
    /\ IsPolylineEdge(a) = IsPolylineEdge(b)
    /\ Get(a.normalized_data, "Start") = Get(b.normalized_data, "Start")
    /\ Get(a.normalized_data, "End") = Get(b.normalized_data, "End")

NoTwoSameSegments(segs) ==
    \A i, j \in 1..Len(segs) : i # j => ~SameQuantizedSegment(segs[i], segs[j])

\* C21: the line-like list handed to Stage B and Stage C holds no two
\* segments of the same kind (two LINEs, or two polyline edges) on the same
\* layer with the same quantized start and end point, edges of different
\* polylines included.
C21_NoDuplicateSegments ==
    phase = "line_like_built" => NoTwoSameSegments(line_entities)

\* The part that holds: no two LINE entities of the list are the same
\* segment on the same layer.
LineEntitiesDistinct ==
    phase = "line_like_built" =>
        NoTwoSameSegments(SelectSeq(line_entities, LAMBDA s : ~IsPolylineEdge(s)))

(***************************************************************************)
(* C22                                                                     *)
(***************************************************************************)

\* The executor hands every processor the one pipeline_data dictionary, and
\* the value under normalize_results is the object NORMALIZE returned
\* (pipeline_executor.py lines 100-111); job_processor.py stores the same
\* objects as artifacts after the last step (lines 87-100).

\* C22: no stage modifies its input.  When CLEAN_DEDUP runs, the result of
\* NORMALIZE in pipeline_data is afterwards what it was before, field for
\* field (and so the artifact stored for NORMALIZE is what NORMALIZE
\* returned).
C22_StageLeavesInputUnchanged ==
    [][phase' = "dedup_done" => pipeline_data' = pipeline_data]_vars

\* What does hold: CLEAN_DEDUP changes nothing of its input but the
\* entity_hash it adds to the entities it keeps.
DedupOnlyAddsEntityHash ==
    [][phase' = "dedup_done" =>
         \A kind \in Kinds :
            /\ Len(normalize_results'.entities[kind]) = Len(normalize_results.entities[kind])
            /\ \A k \in 1..Len(normalize_results.entities[kind]) :
                  \A f \in DOMAIN normalize_results.entities[kind][k] :
                     normalize_results'.entities[kind][k][f]
                        = normalize_results.entities[kind][k][f]]_vars

(***************************************************************************)
(* NORMALIZE: normalize_processor.py.  An extracted entity is a record     *)
(* with layer_name, entity_type and data, data being the JSON value of the *)
(* drawing file.  A raw coordinate counts tenths of EPSILON, a normalized  *)
(* one counts EPSILON (1e-6).                                              *)
(***************************************************************************)

RawUnitsPerEpsilon == 10

\* An exception raised inside the try block of a loop turn (KeyError,
\* TypeError, AttributeError).
Raised == [raised |-> TRUE]

IsNumber(value) == value.t \in { "int", "float" }

\* round(value / self.EPSILON) * self.EPSILON; dividing a string, None, a
\* list or a dict raises TypeError.
_normalize_coordinate(value) ==
    IF IsNumber(value) THEN PyFloat(RoundHalfEven(value.v, RawUnitsPerEpsilon))
    ELSE Raised

PointOf(x, y, z) ==
    IF x = Raised \/ y = Raised \/ z = Raised THEN Raised
    ELSE PyDict(<< Item("X", x), Item("Y", y), Item("Z", z) >>)

\* point.get('X', 0.0) etc.: a missing coordinate is 0.0; a point that is not
\* a dict has no get.
_normalize_point(point) ==
    IF point.t # "dict" THEN Raised
    ELSE PointOf(_normalize_coordinate(GetOr(point, "X", PyFloat(0))),
                 _normalize_coordinate(GetOr(point, "Y", PyFloat(0))),
                 _normalize_coordinate(GetOr(point, "Z", PyFloat(0))))

NormalizedLine(line_entity, start, end) ==
    IF start = Raised \/ end = Raised THEN Raised
    ELSE [layer_name |-> line_entity.layer_name,
          entity_type |-> line_entity.entity_type,
          original_data |-> line_entity.data,
          normalized_data |-> PyDict(<< Item("Start", start), Item("End", end) >>)]

\* line_data['Start'] and line_data['End'] must exist.
_normalize_line(line_entity) ==
    IF line_entity.data.t # "dict" THEN Raised
    ELSE IF ~HasKey(line_entity.data, "Start") \/ ~HasKey(line_entity.data, "End")
    THEN Raised
    ELSE NormalizedLine(line_entity,
                        _normalize_point(Get(line_entity.data, "Start")),
                        _normalize_point(Get(line_entity.data, "End")))

NormalizedPolyline(polyline_entity, normalized_vertices) ==
    IF \E k \in 1..Len(normalized_vertices) : normalized_vertices[k] = Raised THEN Raised
    ELSE [layer_name |-> polyline_entity.layer_name,
          entity_type |-> polyline_entity.entity_type,
          original_data |-> polyline_entity.data,
          normalized_data |->
              PyDict(<< Item("Vertices", PyList(normalized_vertices)),
                        Item("IsClosed",
                             GetOr(polyline_entity.data, "IsClosed", PyBool(FALSE))) >>)]

PolylineOfVertices(polyline_entity, vertices) ==
    IF vertices.t # "list" THEN Raised
    ELSE NormalizedPolyline(polyline_entity,
                            [k \in 1..Len(vertices.items) |->
                                _normalize_point(vertices.items[k])])

\* polyline_data.get('Vertices', []): missing vertices are an empty list.
_normalize_polyline(polyline_entity) ==
    IF polyline_entity.data.t # "dict" THEN Raised
    ELSE PolylineOfVertices(polyline_entity,
                            GetOr(polyline_entity.data, "Vertices", PyList(<<>>)))

NormalizedBox(bbox) ==
    IF bbox.t # "dict" THEN Raised
    ELSE IF ~HasKey(bbox, "MinPoint") \/ ~HasKey(bbox, "MaxPoint") THEN Raised
    ELSE IF _normalize_point(Get(bbox, "MinPoint")) = Raised
            \/ _normalize_point(Get(bbox, "MaxPoint")) = Raised THEN Raised
    ELSE PyDict(<< Item("MinPoint", _normalize_point(Get(bbox, "MinPoint"))),
                   Item("MaxPoint", _normalize_point(Get(bbox, "MaxPoint"))) >>)

BlockItems(block_data, position) ==
    << Item("Position", position),
       Item("Rotation", GetOr(block_data, "Rotation", PyFloat(0))),
       Item("ScaleX", GetOr(block_data, "ScaleX", PyFloat(1))),
       Item("ScaleY", GetOr(block_data, "ScaleY", PyFloat(1))) >>

NormalizedBlock(block_entity, position, box) ==
    IF position = Raised \/ box = Raised THEN Raised
    ELSE [layer_name |-> block_entity.layer_name,
          entity_type |-> block_entity.entity_type,
          original_data |-> block_entity.data,
          normalized_data |->
              PyDict(BlockItems(block_entity.data, position)
                     \o (IF box = NoValue THEN <<>> ELSE << Item("BoundingBox", box) >>)),
          block_name |-> GetOr(block_entity.data, "Name", PyStr("")).v]

_normalize_block(block_entity) ==
    IF block_entity.data.t # "dict" THEN Raised
    ELSE IF ~HasKey(block_entity.data, "Position") THEN Raised
    ELSE NormalizedBlock(block_entity,
                         _normalize_point(Get(block_entity.data, "Position")),
                         IF HasKey(block_entity.data, "BoundingBox")
                         THEN NormalizedBox(Get(block_entity.data, "BoundingBox"))
                         ELSE NoValue)

AbsDiff(a, b) == IF a.v >= b.v THEN a.v - b.v ELSE b.v - a.v

\* (dx + dy + dz) > self.EPSILON
_validate_line(line_entity) ==
    AbsDiff(Get(Get(line_entity.normalized_data, "End"), "X"),
            Get(Get(line_entity.normalized_data, "Start"), "X"))
    + AbsDiff(Get(Get(line_entity.normalized_data, "End"), "Y"),
              Get(Get(line_entity.normalized_data, "Start"), "Y"))
    + AbsDiff(Get(Get(line_entity.normalized_data, "End"), "Z"),
              Get(Get(line_entity.normalized_data, "Start"), "Z")) > 1

_validate_polyline(polyline_entity) ==
    Len(GetOr(polyline_entity.normalized_data, "Vertices", PyList(<<>>)).items) >= 2

_validate_block(block_entity) == HasKey(block_entity.normalized_data, "Position")

NormalizeOf(kind, entity) ==
    CASE kind = "lines" -> _normalize_line(entity)
      [] kind = "polylines" -> _normalize_polyline(entity)
      [] kind = "blocks" -> _normalize_block(entity)

ValidateOf(kind, normalized) ==
    CASE kind = "lines" -> _validate_line(normalized)
      [] kind = "polylines" -> _validate_polyline(normalized)
      [] kind = "blocks" -> _validate_block(normalized)

CountErrorAsInvalid(validation_stats) ==
    [validation_stats EXCEPT !.invalid_entities = @ + 1]

\* except Exception: validation_stats['normalization_errors'] += 1
CountError(validation_stats) ==
    [validation_stats EXCEPT !.normalization_errors = @ + 1]

\* One of the three loops of process; acc holds the list built so far and
\* validation_stats.
RECURSIVE NormalizeFrom(_, _, _, _)
NormalizeTurn(entity_list, k, kind, acc, normalized) ==
    IF normalized = Raised
    THEN NormalizeFrom(entity_list, k + 1, kind,
                       [acc EXCEPT !.validation_stats = CountError(@)])
    ELSE IF ValidateOf(kind, normalized)
    THEN NormalizeFrom(entity_list, k + 1, kind,
                       [out |-> Append(acc.out, normalized),
                        validation_stats |->
                            [acc.validation_stats EXCEPT !.valid_entities = @ + 1]])
    ELSE NormalizeFrom(entity_list, k + 1, kind,
                       [acc EXCEPT !.validation_stats.invalid_entities = @ + 1])

NormalizeFrom(entity_list, k, kind, acc) ==
    IF k > Len(entity_list) THEN acc
    ELSE NormalizeTurn(entity_list, k, kind, acc, NormalizeOf(kind, entity_list[k]))

NormalizeList(entity_list, kind, validation_stats) ==
    NormalizeFrom(entity_list, 1, kind, [out |-> <<>>, validation_stats |-> validation_stats])

\* Lines 98-108.
NormalizeResult(lines, polylines, blocks) ==
    [entities |-> [lines |-> lines.out, polylines |-> polylines.out, blocks |-> blocks.out],
     validation_stats |-> blocks.validation_stats,
     totals |-> [lines |-> Len(lines.out), polylines |-> Len(polylines.out),
                 blocks |-> Len(blocks.out),
                 total |-> Len(lines.out) + Len(polylines.out) + Len(blocks.out)]]

NormalizeBlocks(entities, lines, polylines) ==
    NormalizeResult(lines, polylines,
                    NormalizeList(entities.blocks, "blocks", polylines.validation_stats))

NormalizePolylines(entities, lines) ==
    NormalizeBlocks(entities, lines,
                    NormalizeList(entities.polylines, "polylines", lines.validation_stats))

\* Lines 24-73 and 98-108.
NormalizeEntities(entities) ==
    NormalizePolylines(entities,
                       NormalizeList(entities.lines, "lines",
                                     [valid_entities |-> 0, invalid_entities |-> 0,
                                      normalization_errors |-> 0]))

\* The catalogue: entities as EXTRACT builds them from the drawing file, well
\* formed ones, degenerate ones and ones whose data lack a field or hold a
\* value that is not a number.
MaxRawEntities == 3

RawPoint(x, y, z) ==
    PyDict(<< Item("X", PyFloat(x)), Item("Y", PyFloat(y)), Item("Z", PyFloat(z)) >>)

Extracted(layer, type, data) == [layer_name |-> layer, entity_type |-> type, data |-> data]

RawCatalogue ==
    { Extracted("A", "LINE", PyDict(<< Item("Start", RawPoint(0, 0, 0)),
                                       Item("End", RawPoint(13, 27, 0)) >>)),
      Extracted("B", "LINE", PyDict(<< Item("Start", PyDict(<< Item("X", PyFloat(-16)) >>)),
                                       Item("End", RawPoint(1004, 0, 0)) >>)),
      Extracted("A", "LINE", PyDict(<< Item("Start", RawPoint(3, 0, 0)),
                                       Item("End", RawPoint(-4, 0, 0)) >>)),
      Extracted("A", "LINE", PyDict(<< Item("Start", RawPoint(0, 0, 0)) >>)),
      Extracted("A", "LINE", PyDict(<< Item("Start", RawPoint(0, 0, 0)),
                                       Item("End", PyDict(<< Item("X", PyStr("12.5")),
                                                             Item("Y", PyFloat(0)) >>)) >>)),
      Extracted("A", "LINE", PyNone),
      Extracted("A", "POLYLINE",
                PyDict(<< Item("Vertices", PyList(<< RawPoint(0, 0, 0), RawPoint(996, 0, 0) >>)),
                          Item("IsClosed", PyBool(TRUE)) >>)),
      Extracted("A", "POLYLINE",
                PyDict(<< Item("Vertices", PyList(<< RawPoint(0, 0, 0) >>)) >>)),
      Extracted("A", "POLYLINE", PyDict(<< Item("Vertices", PyNone) >>)),
      Extracted("A", "POLYLINE",
                PyDict(<< Item("Vertices", PyList(<< RawPoint(0, 0, 0),
                                                     PyDict(<< Item("X", PyFloat(5)),
                                                               Item("Y", PyNone) >>) >>)) >>)),
      Extracted("A", "BLOCK", PyDict(<< Item("Name", PyStr("Door")),
                                        Item("Position", RawPoint(104, 96, 0)),
                                        Item("Rotation", PyFloat(90)) >>)),
      Extracted("A", "BLOCK", PyDict(<< Item("Name", PyStr("Door")) >>)),
      Extracted("A", "BLOCK", PyDict(<< Item("Position", RawPoint(0, 0, 0)),
                                        Item("BoundingBox", PyNone) >>)),
      Extracted("A", "BLOCK",
                PyDict(<< Item("Position", RawPoint(0, 0, 0)),
                          Item("BoundingBox",
                               PyDict(<< Item("MinPoint", RawPoint(-44, -46, 0)),
                                         Item("MaxPoint", RawPoint(44, 46, 0)) >>)) >>)) }

\* extract_results of up to MaxRawEntities entities in all.
InputsNormalize ==
    { [entities |-> [lines |-> SelectSeq(s, IsLineEntity),
                     polylines |-> SelectSeq(s, IsPolylineEntity),
                     blocks |-> SelectSeq(s, IsBlockEntity)]] :
        s \in SeqsUpTo(RawCatalogue, MaxRawEntities) }

extract_results == pipeline_data[1].value

InitNormalize ==
    /\ phase = "normalize_input"
    /\ pipeline_data \in { << [key |-> "extract_results", value |-> n] >> : n \in InputsNormalize }
    /\ step_status = <<>>
    /\ step_index = 0
    /\ results = <<>>
    /\ exec_log = <<>>
    /\ IdleB /\ IdleRects /\ IdleDoors /\ IdleParallel

\* NormalizeProcessor.process
Normalize ==
    /\ phase = "normalize_input"
    /\ results' = NormalizeEntities(extract_results.entities)
    /\ phase' = "normalize_done"
    /\ UNCHANGED << step_status, step_index, pipeline_data, exec_log,
                    varsB, varsRects, varsDoors, varsParallel >>

NextNormalize == Normalize

SpecNormalize == InitNormalize /\ [][NextNormalize]_vars

(***************************************************************************)
(* C23                                                                     *)
(***************************************************************************)

Fails(kind, entity) == NormalizeOf(kind, entity) = Raised

\* The input without the entities whose normalization fails.
WithoutFailing(entities) ==
    [kind \in Kinds |-> SelectSeq(entities[kind], LAMBDA e : ~Fails(kind, e))]

NumberFailing(entities) ==
    Cardinality({ << kind, k >> \in Kinds \X (1..MaxRawEntities) :
                    k <= Len(entities[kind]) /\ Fails(kind, entities[kind][k]) })

NumberOfEntities(entities) ==
    Len(entities.lines) + Len(entities.polylines) + Len(entities.blocks)

\* C23: the stage completes; an entity whose normalization fails is not in
\* the output and is counted in normalization_errors, once; the output lists
\* and the counts of valid and invalid entities are those of the same input
\* without the failing entities; and valid_entities + invalid_entities +
\* normalization_errors is the number of input entities.
C23_FailingEntitySkipped ==
    phase = "normalize_done" =>
        /\ results.entities = NormalizeEntities(WithoutFailing(extract_results.entities)).entities
        /\ results.totals = NormalizeEntities(WithoutFailing(extract_results.entities)).totals
        /\ results.validation_stats.valid_entities =
              NormalizeEntities(WithoutFailing(extract_results.entities))
                 .validation_stats.valid_entities
        /\ results.validation_stats.invalid_entities =
              NormalizeEntities(WithoutFailing(extract_results.entities))
                 .validation_stats.invalid_entities
        /\ NormalizeEntities(WithoutFailing(extract_results.entities))
              .validation_stats.normalization_errors = 0
        /\ results.validation_stats.normalization_errors =
              NumberFailing(extract_results.entities)
        /\ results.validation_stats.valid_entities
              + results.validation_stats.invalid_entities
              + results.validation_stats.normalization_errors
              = NumberOfEntities(extract_results.entities)
        /\ results.validation_stats.valid_entities = results.totals.total

\* A line without End and a line with a coordinate that is not a number
\* stand before a well-formed line: the stage has completed with two errors
\* and the well-formed line normalized.
C23_Witness ==
    /\ phase = "normalize_done"
    /\ Len(extract_results.entities.lines) = 3
    /\ extract_results.entities.lines[1].data.t = "dict"
    /\ ~HasKey(extract_results.entities.lines[1].data, "End")
    /\ extract_results.entities.lines[2].data.t = "dict"
    /\ HasKey(extract_results.entities.lines[2].data, "End")
    /\ Fails("lines", extract_results.entities.lines[2])
    /\ results.validation_stats.normalization_errors = 2
    /\ Len(results.entities.lines) = 1
    /\ results.entities.lines[1].original_data = extract_results.entities.lines[3].data

(***************************************************************************)
(* process_job (job_processor.py) around execute_pipeline.                  *)
(***************************************************************************)

\* Lines 87-100: one artifact per step result that is not empty.
StepArtifact(result) ==
    [artifact_type |-> ResultsKey[result.key], content |-> result.value]

RECURSIVE StepArtifactsFrom(_, _)
StepArtifactsFrom(step_results, k) ==
    IF k > Len(step_results) THEN <<>>
    ELSE (IF step_results[k].value # <<>> THEN << StepArtifact(step_results[k]) >> ELSE <<>>)
         \o StepArtifactsFrom(step_results, k + 1)

\* execute_pipeline has returned: the step results are stored as artifacts
\* and the job is marked completed.  create_artifact swallows its exceptions
\* and returns None; the artifact directory is taken to be writable for all
\* of the job's artifacts or for none.
StoreArtifacts ==
    /\ phase = "exec_completed"
    /\ artifact' \in { StepArtifactsFrom(results, 1), <<>> }
    /\ phase' = "job_completed"
    /\ UNCHANGED << varsExec, layer_groups, pending, processed_results,
                    varsB, varsRects, varsDoors >>

\* execute_pipeline has raised: the except branch (lines 150-174) marks the
\* job failed and raises again; lines 87-100 are not reached.
JobFails ==
    /\ phase = "exec_failed"
    /\ phase' = "job_failed"
    /\ UNCHANGED << varsExec, varsParallel, varsB, varsRects, varsDoors >>

NextJob == NextExec \/ StoreArtifacts \/ JobFails

SpecJob == InitExec /\ [][NextJob]_vars

(***************************************************************************)
(* C24                                                                     *)
(***************************************************************************)

IsStored(result) ==
    \E a \in 1..Len(artifact) : artifact[a] = StepArtifact(result)

\* C24: when a step has failed and the job has ended, the result of every
\* step that had completed before is among the job's artifacts.
C24_CompletedResultsDelivered ==
    phase = "job_failed" => \A i \in 1..Len(results) : IsStored(results[i])

\* What holds: a job whose steps all completed has, unless the artifacts
\* could not be written, one artifact per step with that step's result.
CompletedJobStoresEveryResult ==
    (phase = "job_completed" /\ artifact # <<>>) =>
        /\ Len(results) = Len(PIPELINE_STEPS)
        /\ \A i \in 1..Len(results) : IsStored(results[i])

\* A failed job has no step artifact at all.
FailedJobStoresNothing == phase = "job_failed" => artifact = <<>>

(***************************************************************************)
(* C25                                                                     *)
(***************************************************************************)
\* The lists holding the elements of s in every order.
Reorderings(s) ==
    { [k \in 1..Len(s) |-> s[p[k]]] : p \in Permutations(1..Len(s)) }

\* The number of positions of s holding x.
Occurrences(s, x) == Cardinality({ k \in 1..Len(s) : s[k] = x })

\* Two lists hold the same rectangles the same number of times.
SameRectangles(a, b) ==
    /\ Len(a) = Len(b)
    /\ \A x \in Range(a) \cup Range(b) : Occurrences(a, x) = Occurrences(b, x)

\* Stage E run on one list.
StageEOf(rects) ==
    merge_adjacent_rectangles(rects, THICKNESS_MIN_MM, THICKNESS_MAX_MM,
                              LINE_COORD_TOL_MM, GAP_TOL_MM)

\* C25: Stage E emits the same merged rectangles and the same pass-through
\* rectangles for every ordering of its input; only the order of the output
\* list may depend on the order of the input.
C25_OutputSetIndependentOfOrder ==
    phase = "E_done" =>
        \A perm \in Reorderings(logic_d_rectangles) :
            SameRectangles(StageEOf(perm), logic_e_rectangles)

\* Two rectangles of one band were merged although the input listed the one
\* further along the run axis first, and a third rectangle was passed through.
C25_Witness ==
    /\ phase = "E_done"
    /\ Len(logic_d_rectangles) = 3
    /\ Len(logic_e_rectangles) = 2
    /\ IneligibleOf(logic_d_rectangles, THICKNESS_MIN_MM, THICKNESS_MAX_MM,
                    LINE_COORD_TOL_MM) # <<>>
    /\ \E i, j \in 1..Len(logic_d_rectangles) :
          /\ i < j
          /\ LET el == EligibleOf(<< logic_d_rectangles[i], logic_d_rectangles[j] >>,
                                  THICKNESS_MIN_MM, THICKNESS_MAX_MM, LINE_COORD_TOL_MM)
             IN  /\ Len(el) = 2
                 /\ el[1].band_key = el[2].band_key
                 /\ el[1].run_start > el[2].run_start

(***************************************************************************)
(* C26                                                                     *)
(***************************************************************************)
\* The candidates of the Stage F input, in the order the double loop finds them.
CandidatesOf(rects) ==
    IF rects = <<>> THEN <<>>
    ELSE CandidatesFrom(1, 2,
             [k \in 1..Len(rects) |-> OrientationOfBounds(_get_bounds(rects[k]))],
             [k \in 1..Len(rects) |-> _wall_representation(rects[k])],
             [k \in 1..Len(rects) |-> _get_bounds(rects[k])],
             <<>>, LOGIC_F_MAX_EXTENSION_MM, LOGIC_F_MAX_JUNCTION_DISTANCE_MM)

\* Candidate a comes before candidate b: lower score, or the same score and the
\* lower pair of input indices.
ComesBefore(a, b) ==
    \/ a.score < b.score
    \/ a.score = b.score /\ a.i < b.i
    \/ a.score = b.score /\ a.i = b.i /\ a.j < b.j

IsAccepted(c, acc) == \E a \in 1..Len(acc) : acc[a].i = c.i /\ acc[a].j = c.j

\* acc is the greedy choice among cands: in acceptance order, made of
\* candidates, a candidate being left out exactly when an accepted candidate
\* that comes before it holds one of its rectangles, and no candidate being
\* left with both rectangles free.
IsGreedyChoice(cands, acc) ==
    /\ \A a \in 1..Len(acc) :
          \E k \in 1..Len(cands) :
              /\ cands[k].i = acc[a].i /\ cands[k].j = acc[a].j
              /\ cands[k].X = acc[a].X
              /\ \A b \in (a + 1)..Len(acc) :
                    \E m \in 1..Len(cands) :
                        /\ cands[m].i = acc[b].i /\ cands[m].j = acc[b].j
                        /\ ComesBefore(cands[k], cands[m])
    /\ \A k \in 1..Len(cands) :
          ~IsAccepted(cands[k], acc) <=>
              \E m \in 1..Len(cands) :
                  /\ ComesBefore(cands[m], cands[k])
                  /\ IsAccepted(cands[m], acc)
                  /\ PairOf(cands[m]) \cap PairOf(cands[k]) # {}
    /\ \A k \in 1..Len(cands) :
          PairOf(cands[k]) \cap UNION { PairOf(acc[a]) : a \in 1..Len(acc) } # {}

\* C26: Stage F accepts candidates greedily in ascending score order, ties
\* broken by the input indices (i, j): a candidate is skipped only if one of
\* its rectangles belongs to an accepted candidate that comes earlier in that
\* order, and after the pass every candidate has a locked rectangle.
C26_GreedyByScore ==
    phase = "F_done" => IsGreedyChoice(CandidatesOf(logic_e_rectangles), accepted)

\* A candidate found later by the double loop was accepted ahead of one found
\* earlier, which was skipped because they share a rectangle.
C26_Witness ==
    /\ phase = "F_done"
    /\ LET cands == CandidatesOf(logic_e_rectangles)
       IN  \E k, m \in 1..Len(cands) :
              /\ k < m
              /\ cands[m].score < cands[k].score
              /\ PairOf(cands[m]) \cap PairOf(cands[k]) # {}
              /\ IsAccepted(cands[m], accepted)
              /\ ~IsAccepted(cands[k], accepted)

(***************************************************************************)
(* C27                                                                     *)
(***************************************************************************)
\* The steps whose status one transition changes.
ChangedSteps ==
    { k \in DOMAIN step_status \cap DOMAIN step_status' : step_status'[k] # step_status[k] }

\* The moves of one step the claim allows.
IsMonotoneMove(from, to) ==
    \/ from = "pending" /\ to = "running"
    \/ from = "running" /\ to \in { "completed", "failed" }

\* C27: a step only moves pending -> running -> completed or failed, completed
\* and failed are never left, and a step leaves pending only when every
\* earlier step is completed.
C27_StepStatusMonotone ==
    [][\A k \in ChangedSteps :
          /\ IsMonotoneMove(step_status[k], step_status'[k])
          /\ step_status[k] = "pending" => \A e \in 1..(k - 1) : step_status[e] = "completed"]_vars

\* What holds of the executor: failed is never left, a step leaves pending
\* only when every earlier step is completed, and the only moves besides the
\* claimed ones are pending -> failed and completed -> failed.
StepStatusMovesOfExecutor ==
    [][\A k \in ChangedSteps :
          /\ \/ IsMonotoneMove(step_status[k], step_status'[k])
             \/ step_status[k] \in { "pending", "completed" } /\ step_status'[k] = "failed"
          /\ step_status[k] = "pending" => \A e \in 1..(k - 1) : step_status[e] = "completed"]_vars

(***************************************************************************)
(* C28                                                                     *)
(***************************************************************************)
\* Rectangle ra passes the three tests of step 4 against rb: larger area,
\* bounding box around rb's, and cover within 0.1 mm.
PrunesD(ra, rb) ==
    /\ AreaLarger(PolyOf(ra), PolyOf(rb))
    /\ EnvelopeContains(Envelope(PolyOf(ra)), Envelope(PolyOf(rb)))
    /\ CoversD(ra, rb)

\* The input rectangles that Stage D did not emit.
PrunedInputs == Range(rectangles) \ Range(logic_d_rectangles)

RECURSIVE AnchoredTo(_, _)
AnchoredTo(anchors, n) ==
    IF n = 0 THEN anchors
    ELSE AnchoredTo(anchors \cup { rb \in Range(rectangles) :
                                      \E ra \in anchors : PrunesD(ra, rb) }, n - 1)

RunAxisInterval(b, orient) ==
    IF orient = "H" THEN << b[1], b[3] >> ELSE << b[2], b[4] >>

\* The run-axis interval of rectangle k before and after Stage F, on the run
\* axis Stage F inferred for the input rectangle.
RunBefore(k) ==
    RunAxisInterval(_get_bounds(logic_e_rectangles[k]),
                    OrientationOfBounds(_get_bounds(logic_e_rectangles[k])))

RunAfter(k) ==
    RunAxisInterval(_get_bounds(logic_f_rectangles[k]),
                    OrientationOfBounds(_get_bounds(logic_e_rectangles[k])))

\* C29: a Stage F extension never shortens a rectangle: the run-axis interval
\* of an extended rectangle contains the run-axis interval of its input, and
\* the moved end lies at most 300 mm beyond its original position.
C29_ExtensionNeverShortens ==
    phase = "F_done" =>
        \A k \in ExtendedPositions :
            /\ RunAfter(k)[1] <= RunBefore(k)[1]
            /\ RunBefore(k)[2] <= RunAfter(k)[2]
            /\ RunBefore(k)[1] - RunAfter(k)[1] <= LOGIC_F_MAX_EXTENSION_MM
            /\ RunAfter(k)[2] - RunBefore(k)[2] <= LOGIC_F_MAX_EXTENSION_MM

\* C29 amended: each end of the run-axis interval of an extended rectangle
\* lies at most 300 mm from its position in the input, on either side: the
\* rectangle is lengthened when the junction point lies beyond its end and
\* shortened when it lies inside.
ExtensionMovesEndsWithinMax ==
    phase = "F_done" =>
        \A k \in ExtendedPositions :
            /\ Abs(RunAfter(k)[1] - RunBefore(k)[1]) <= LOGIC_F_MAX_EXTENSION_MM
            /\ Abs(RunAfter(k)[2] - RunBefore(k)[2]) <= LOGIC_F_MAX_EXTENSION_MM

\* One accepted junction lengthened one rectangle and shortened the other.
C29_Witness ==
    /\ phase = "F_done"
    /\ \E k, m \in ExtendedPositions :
          /\ RunAfter(k)[2] > RunBefore(k)[2] \/ RunAfter(k)[1] < RunBefore(k)[1]
          /\ RunAfter(m)[1] > RunBefore(m)[1] \/ RunAfter(m)[2] < RunBefore(m)[2]
          /\ \E a \in 1..Len(accepted) : PairOf(accepted[a]) = { k, m }

(***************************************************************************)
(* C30                                                                     *)
(***************************************************************************)
\* The coordinate of p along the axis-parallel line l.
AlongLine(p, l) == IF IsHorizontal(l) THEN p[1] ELSE p[2]

\* The direction of line l along its axis: +1 or -1.
DirectionSign(l) == IF IsHorizontal(l) THEN Sgn(l.x2 - l.x1) ELSE Sgn(l.y2 - l.y1)

\* A.p1 and B.p1 are at one end of the common overlap, A.p2 and B.p2 at the other.
P1sAtSameEnd(q, l1) ==
    /\ Abs(AlongLine(q.trimmedSegmentA.p1, l1) - AlongLine(q.trimmedSegmentB.p1, l1)) <= EPS_MM
    /\ Abs(AlongLine(q.trimmedSegmentA.p2, l1) - AlongLine(q.trimmedSegmentB.p2, l1)) <= EPS_MM

\* A.p1 faces B.p2 and A.p2 faces B.p1.
P1sAtOppositeEnds(q, l1) ==
    /\ Abs(AlongLine(q.trimmedSegmentA.p1, l1) - AlongLine(q.trimmedSegmentB.p2, l1)) <= EPS_MM
    /\ Abs(AlongLine(q.trimmedSegmentA.p2, l1) - AlongLine(q.trimmedSegmentB.p1, l1)) <= EPS_MM

\* The ring corners[1..4] has its first two corners on one line and the other
\* two on a parallel line: its sides 2-3 and 4-1 cross exactly when 1 -> 2 and
\* 4 -> 3 run in opposite directions.
IsSimpleQuad(corners, l1) ==
    Sgn(AlongLine(corners[2], l1) - AlongLine(corners[1], l1))
        = Sgn(AlongLine(corners[3], l1) - AlongLine(corners[4], l1))

\* C30: in every Stage B quad A.p1 and B.p1 lie at the same end of the common
\* overlap and the two p2 at the other end, whatever the relative direction of
\* the source lines, so quad_corners (A.p1, A.p2, B.p2, B.p1) trace a simple
\* quadrilateral.
C30_QuadCornersSimple ==
    phase = "B_done" =>
        \A k \in 1..Len(pairs_out) :
            /\ P1sAtSameEnd(pairs_out[k], LineById(pairs_out[k].sourceLineIdA))
            /\ IsSimpleQuad(pairs_out[k].quad_corners, LineById(pairs_out[k].sourceLineIdA))

\* What holds of Stage B: p1 and p2 of each trimmed segment follow the
\* direction of its own source line, so the quad is simple exactly when the two
\* source lines run the same way, and for lines running against each other
\* A.p1 faces B.p2.
QuadSimpleIffSameDirection ==
    phase = "B_done" =>
        \A k \in 1..Len(pairs_out) :
            LET q == pairs_out[k]
                l1 == LineById(q.sourceLineIdA)
                l2 == LineById(q.sourceLineIdB)
            IN  /\ q.quad_corners = << q.trimmedSegmentA.p1, q.trimmedSegmentA.p2,
                                      q.trimmedSegmentB.p2, q.trimmedSegmentB.p1 >>
                /\ IF DirectionSign(l1) = DirectionSign(l2)
                   THEN P1sAtSameEnd(q, l1) /\ IsSimpleQuad(q.quad_corners, l1)
                   ELSE P1sAtOppositeEnds(q, l1) /\ ~IsSimpleQuad(q.quad_corners, l1)

====
